---- MODULE Spec2Model ----
(***************************************************************************)
(* Model of the detraction pipeline of proc_detracciones                   *)
(* (src/proc_detracciones/services/procesador.py): file collection, UBL    *)
(* parsing, ordered validation, batch coherence, fixed-width encoding and  *)
(* output writing.                                                         *)
(*                                                                         *)
(* Text is a sequence of one-character strings.  A Decimal is a record     *)
(* [kind, neg, coef]: kind is "fin", "inf", "nan" or "err" (the text is    *)
(* no number); coef is the magnitude in units of 10^-FracDigits as a       *)
(* sequence of decimal digits without leading zeros (<<0>> for zero), so   *)
(* amounts of any width are exact.                                         *)
(***************************************************************************)
EXTENDS Integers, Sequences, FiniteSets, TLC

(***************************************************************************)
(* Bounds of the model.                                                    *)
(***************************************************************************)
\* number of entries (loose .xml files and .zip archives) of an input directory
MaxFiles == 2

(***************************************************************************)
(* Widths fixed by the program.                                            *)
(***************************************************************************)
DetalleLen == 107
CabeceraLen == 68
MoneyWidth == 15
MaxMotivos == 5

(***************************************************************************)
(* Python string primitives.                                               *)
(***************************************************************************)
Min2(a, b) == IF a < b THEN a ELSE b

Max2(a, b) == IF a > b THEN a ELSE b

Rep(c, n) == [i \in 1..n |-> c]

\* s[:n]
Prefix(s, n) == SubSeq(s, 1, Min2(n, Len(s)))

\* s[-n:]
Suffix(s, n) == SubSeq(s, Max2(1, Len(s) - n + 1), Len(s))

\* s.rjust(n, c)
rjust(s, n, c) == Rep(c, Max2(0, n - Len(s))) \o s

\* s.ljust(n, c)
ljust(s, n, c) == s \o Rep(c, Max2(0, n - Len(s)))

DigitChars == <<"0", "1", "2", "3", "4", "5", "6", "7", "8", "9">>

IsDigitChar(ch) == \E i \in 1..10 : DigitChars[i] = ch

\* the line feed character
LF == "\n"

IsSpace(ch) == ch \in {" ", LF}

\* s.strip() for the blanks the model's texts hold
RECURSIVE lstrip(_)
lstrip(s) == IF s # <<>> /\ IsSpace(Head(s)) THEN lstrip(Tail(s)) ELSE s

RECURSIVE rstrip(_)
rstrip(s) ==
  IF s # <<>> /\ IsSpace(s[Len(s)]) THEN rstrip(SubSeq(s, 1, Len(s) - 1)) ELSE s

strip(s) == rstrip(lstrip(s))

\* s.isdigit()
isdigit(s) == s # <<>> /\ \A i \in 1..Len(s) : IsDigitChar(s[i])

\* position of the first ch in s, 0 when absent
IndexOfFrom(s, ch, i) ==
  LET hits == {k \in i..Len(s) : s[k] = ch}
  IN  IF hits = {} THEN 0 ELSE CHOOSE k \in hits : \A m \in hits : k <= m

IndexOf(s, ch) == IndexOfFrom(s, ch, 1)

(***************************************************************************)
(* Utilidades.                                                             *)
(***************************************************************************)
\* NFD decomposition followed by removal of combining marks and upper():
\* accented letters lose the accent, letters are upper-cased.
UpperChar(ch) ==
  CASE ch \in {"a", "á", "Á"} -> "A"
    [] ch \in {"e", "é", "É"} -> "E"
    [] ch \in {"o", "ó", "Ó"} -> "O"
    [] ch = "b" -> "B"
    [] ch = "f" -> "F"
    [] ch = "n" -> "N"
    [] OTHER -> ch

sin_tildes_upper(s) == [i \in 1..Len(s) |-> UpperChar(s[i])]

digits(s) == SelectSeq(s, IsDigitChar)

DigitVal(ch) == (CHOOSE i \in 1..10 : DigitChars[i] = ch) - 1

DigitStr(ds) == [i \in 1..Len(ds) |-> DigitChars[ds[i] + 1]]

(***************************************************************************)
(* Arithmetic on naturals held as digit sequences (Python int / Decimal    *)
(* are unbounded).                                                         *)
(***************************************************************************)
NatZero == <<0>>

RECURSIVE NatNorm(_)
NatNorm(ds) ==
  IF ds = <<>> THEN NatZero
  ELSE IF Len(ds) > 1 /\ Head(ds) = 0 THEN NatNorm(Tail(ds)) ELSE ds

NatIsZero(ds) == NatNorm(ds) = NatZero

\* a < b for normalised digit sequences
RECURSIVE SeqLess(_, _)
SeqLess(a, b) ==
  IF a = <<>> THEN FALSE
  ELSE IF Head(a) # Head(b) THEN Head(a) < Head(b)
  ELSE SeqLess(Tail(a), Tail(b))

NatLess(a, b) ==
  IF Len(a) # Len(b) THEN Len(a) < Len(b) ELSE SeqLess(a, b)

\* a + b, least significant digit last
RECURSIVE NatAddC(_, _, _)
NatAddC(a, b, carry) ==
  IF a = <<>> /\ b = <<>> THEN (IF carry = 0 THEN <<>> ELSE <<carry>>)
  ELSE LET da == IF a = <<>> THEN 0 ELSE a[Len(a)]
           db == IF b = <<>> THEN 0 ELSE b[Len(b)]
           ra == IF a = <<>> THEN <<>> ELSE SubSeq(a, 1, Len(a) - 1)
           rb == IF b = <<>> THEN <<>> ELSE SubSeq(b, 1, Len(b) - 1)
           t  == da + db + carry
       IN  Append(NatAddC(ra, rb, t \div 10), t % 10)

NatAdd(a, b) == NatNorm(NatAddC(a, b, 0))

NatSucc(a) == NatAdd(a, <<1>>)

\* a div 10^k and the k digits of a mod 10^k
NatDivPow(a, k) == IF Len(a) <= k THEN NatZero ELSE SubSeq(a, 1, Len(a) - k)

NatModPow(a, k) == Suffix(rjust(a, k, 0), k)

NatOdd(a) == a[Len(a)] % 2 = 1

(***************************************************************************)
(* decimal.Decimal, for the amount texts of the model: an optional sign,   *)
(* digits, an optional point and at most FracDigits fraction digits, or    *)
(* one of the special values NaN and Infinity.  Any other text is a        *)
(* conversion error (decimal.InvalidOperation).                            *)
(***************************************************************************)
\* fraction digits the model's amounts carry
FracDigits == 3

\* digits dropped by quantize(Decimal("0.01"))
DropDigits == FracDigits - 2

DecFin(neg, coef) == [kind |-> "fin", neg |-> neg, coef |-> NatNorm(coef)]

DecZero == DecFin(FALSE, NatZero)

DecNaN == [kind |-> "nan", neg |-> FALSE, coef |-> NatZero]

DecInf(neg) == [kind |-> "inf", neg |-> neg, coef |-> NatZero]

DecErr == [kind |-> "err", neg |-> FALSE, coef |-> NatZero]

\* Decimal(text): the constructor strips blanks around the number
ParseDecimal(text) ==
  LET t    == strip(text)
      neg  == t # <<>> /\ Head(t) = "-"
      body == IF t # <<>> /\ Head(t) \in {"-", "+"} THEN Tail(t) ELSE t
      dot  == IndexOf(body, ".")
      ip   == IF dot = 0 THEN body ELSE SubSeq(body, 1, dot - 1)
      fp   == IF dot = 0 THEN <<>> ELSE SubSeq(body, dot + 1, Len(body))
      okI  == \A i \in 1..Len(ip) : IsDigitChar(ip[i])
      okF  == \A i \in 1..Len(fp) : IsDigitChar(fp[i])
  IN  IF body = <<"N", "a", "N">> THEN DecNaN
      ELSE IF body = <<"I", "n", "f", "i", "n", "i", "t", "y">> THEN DecInf(neg)
      ELSE IF okI /\ okF /\ Len(ip) + Len(fp) > 0 /\ Len(fp) <= FracDigits
        THEN DecFin(neg,
                    [i \in 1..Len(ip) |-> DigitVal(ip[i])]
                    \o [i \in 1..FracDigits |->
                          IF i <= Len(fp) THEN DigitVal(fp[i]) ELSE 0])
      ELSE DecErr

\* an ordering comparison with a NaN signals decimal.InvalidOperation
CompareRaises(a, b) == a.kind = "nan" \/ b.kind = "nan"

\* a < b, for operands that are not NaN
DecLess(a, b) ==
  LET za == a.kind = "fin" /\ NatIsZero(a.coef)
      zb == b.kind = "fin" /\ NatIsZero(b.coef)
      na == a.neg /\ ~za
      nb == b.neg /\ ~zb
      magLess(x, y) ==
        IF x.kind = "inf" THEN FALSE
        ELSE IF y.kind = "inf" THEN TRUE
        ELSE NatLess(x.coef, y.coef)
  IN  IF na # nb THEN na
      ELSE IF na THEN magLess(b, a) ELSE magLess(a, b)

\* a <= b, for operands that are not NaN
DecLeq(a, b) == ~DecLess(b, a)

\* magnitude in cents, ties away from zero (ROUND_HALF_UP)
RoundHalfUp(coef) ==
  LET q == NatDivPow(coef, DropDigits)
      r == NatModPow(coef, DropDigits)
  IN  IF r[1] >= 5 THEN NatSucc(q) ELSE q

\* magnitude in cents, ties to the even cent (ROUND_HALF_EVEN, the rounding
\* of the default context)
RoundHalfEven(coef) ==
  LET q    == NatDivPow(coef, DropDigits)
      r    == NatModPow(coef, DropDigits)
      rest == NatIsZero(Tail(r))
      up   == r[1] > 5 \/ (r[1] = 5 /\ ~rest) \/ (r[1] = 5 /\ rest /\ NatOdd(q))
  IN  IF up THEN NatSucc(q) ELSE q

\* str(int) of a signed magnitude
IntStr(neg, mag) ==
  (IF neg /\ ~NatIsZero(mag) THEN <<"-">> ELSE <<>>) \o DigitStr(mag)

\* quantize() of an infinity and int() of a NaN raise
money15Raises(dec) == dec.kind # "fin"

\* variant: the cents are not padded to the width of the field
money15NoPad(dec) == IntStr(dec.neg, RoundHalfUp(dec.coef))

money15(dec) ==
  rjust(IntStr(dec.neg, RoundHalfUp(dec.coef)), MoneyWidth, "0")

\* f"{d:.2f}"
Fmt2(dec) ==
  IF dec.kind = "nan" THEN <<"N", "a", "N">>
  ELSE IF dec.kind = "inf"
    THEN (IF dec.neg THEN <<"-">> ELSE <<>>)
         \o <<"I", "n", "f", "i", "n", "i", "t", "y">>
  ELSE LET c  == RoundHalfEven(dec.coef)
           cs == rjust(DigitStr(c), 3, "0")
       IN  (IF dec.neg THEN <<"-">> ELSE <<>>)
           \o SubSeq(cs, 1, Len(cs) - 2) \o <<".">> \o Suffix(cs, 2)

\* periodo_aaaamm
periodo_aaaamm(issue_date) ==
  LET s == [i \in 1..Len(strip(issue_date)) |->
              IF strip(issue_date)[i] = "/" THEN "-" ELSE strip(issue_date)[i]]
  IN  IF IndexOf(s, "-") # 0 /\ Len(s) >= 7
        THEN Prefix(s, 4) \o SubSeq(s, 6, 7)
      ELSE IF Len(s) = 6 /\ isdigit(s) THEN s
      ELSE <<"0", "0", "0", "0", "0", "0">>

(***************************************************************************)
(* Configuration.                                                          *)
(***************************************************************************)
\* Decimal("700.00"), the minimum the web layer passes
MinMonto == DecFin(FALSE, <<7, 0, 0>> \o Rep(0, FracDigits))

DEFAULT_TIPO_OPERACION_TXT == <<"0", "1">>

DEFAULT_CODE_WHITELIST ==
  { <<"0", "2", "2">>, <<"0", "3", "0">>, <<"0", "3", "7">>, <<"0", "3", "9">>,
    <<"0", "4", "0">>, <<"0", "4", "1">>, <<"0", "4", "2">>, <<"0", "4", "3">>,
    <<"0", "4", "4">>, <<"0", "4", "5">>, <<"0", "4", "6">>, <<"0", "4", "7">>,
    <<"0", "4", "8">>, <<"0", "4", "9">>, <<"0", "5", "0">>, <<"0", "5", "1">>,
    <<"0", "5", "2">>, <<"0", "5", "3">>, <<"0", "5", "4">>, <<"0", "5", "5">> }

\* the batch number of the runs, six digits as the web layer requires
Lote == <<"2", "5", "0", "0", "0", "1">>

Modes == {"proveedor", "adquiriente"}

(***************************************************************************)
(* The XML documents of the model.  A document is the text of the          *)
(* elements parse_xml_fields looks up ("" for an absent element).          *)
(***************************************************************************)
RUC1 == <<"2", "0">> \o Rep("1", 9)

RUC2 == <<"2", "0">> \o Rep("2", 9)

RUC9 == <<"2", "0">> \o Rep("9", 9)

RUC8 == <<"2", "0">> \o Rep("8", 9)

DNI4 == Rep("4", 8)

CTA1 == <<"0", "0", "-">> \o Rep("3", 9)

CTA2 == <<"0", "0", "-">> \o Rep("5", 12)

TXT_1000 == <<"1", "0", "0", "0", ".", "0", "0">>

TXT_700 == <<"7", "0", "0", ".", "0", "0">>

TXT_699 == <<"6", "9", "9", ".", "9", "9">>

TXT_50 == <<"5", "0", ".", "0", "0">>

TXT_TIE == <<"1", "0", ".", "1", "2", "5">>

TXT_COMMA == <<" ", "5", "0", ",", "5">>

TXT_ZERO == <<"0", ".", "0", "0">>

TXT_NEG == <<"-", "5", ".", "0", "0">>

TXT_NAN == <<"N", "a", "N">>

TXT_INF == <<"I", "n", "f", "i", "n", "i", "t", "y">>

TXT_TINY == <<"0", ".", "0", "0", "4">>

TXT_ABC == <<"a", "b", "c">>

\* 9999999999999.99: the largest amount whose cents fit fifteen digits
TXT_MAX == Rep("9", MoneyWidth - 2) \o <<".", "9", "9">>

\* 10000000000000.00: its cents need sixteen digits
TXT_BIG == <<"1">> \o Rep("0", MoneyWidth - 2) \o <<".", "0", "0">>

BaseDoc ==
  [ wellformed |-> TRUE,
    prov_id    |-> RUC1,
    prov_razon |-> <<"f", "á", "b">>,
    cli_id     |-> RUC9,
    cli_razon  |-> <<"b", "o", "n">>,
    comp_id    |-> <<"F", "0", "0", "1", "-", "1", "2", "3">>,
    has_itc    |-> TRUE,
    itc        |-> <<"1">>,
    issue_date |-> <<"2", "0", "2", "5", "-", "0", "1", "-", "1", "5">>,
    pay        |-> TXT_1000,
    has_term   |-> TRUE,
    code       |-> <<"0", "3", "7">>,
    amount     |-> TXT_50,
    has_means  |-> TRUE,
    cuenta     |-> CTA1 ]

DocPool ==
  << BaseDoc,
     \* 2: amount on a rounding tie, customer with a DNI and a long name
     [BaseDoc EXCEPT !.amount = TXT_TIE, !.cli_id = DNI4,
                     !.cli_razon = Rep("é", 40), !.pay = TXT_700,
                     !.comp_id = <<"b", "0", "0", "0", "1", "0", "7">>,
                     !.has_itc = FALSE, !.issue_date = <<"2", "0", "2", "5", "0", "2">>],
     \* 3: another supplier and another customer
     [BaseDoc EXCEPT !.prov_id = RUC2, !.prov_razon = <<"n", "o", "b">>,
                     !.cli_id = RUC8, !.cli_razon = <<"f", "e">>,
                     !.code = <<"0", "4", "0">>],
     \* 4: payable amount below the minimum, no detraction term, other parties
     [BaseDoc EXCEPT !.prov_id = RUC2, !.prov_razon = <<"n", "o", "b">>,
                     !.cli_id = RUC8, !.cli_razon = <<"f", "e">>,
                     !.pay = TXT_699, !.has_term = FALSE],
     \* 5: no supplier tax id
     [BaseDoc EXCEPT !.prov_id = <<>>, !.prov_razon = <<>>],
     \* 6: no customer document number
     [BaseDoc EXCEPT !.cli_id = <<"-">>, !.cli_razon = <<>>],
     \* 7: payable amount NaN, no detraction term
     [BaseDoc EXCEPT !.pay = TXT_NAN, !.has_term = FALSE],
     \* 8: not well-formed
     [BaseDoc EXCEPT !.wellformed = FALSE],
     \* 9: another bank account
     [BaseDoc EXCEPT !.cuenta = CTA2, !.amount = TXT_COMMA],
     \* 10: no detraction term, no bank account
     [BaseDoc EXCEPT !.has_term = FALSE, !.has_means = FALSE],
     \* 11: detraction term without code and without amount
     [BaseDoc EXCEPT !.code = <<" ">>, !.amount = <<>>],
     \* 12: code outside the whitelist, no bank account
     [BaseDoc EXCEPT !.code = <<"0", "9", "9">>, !.has_means = FALSE],
     \* 13: detraction amount zero, no bank account
     [BaseDoc EXCEPT !.amount = TXT_ZERO, !.cuenta = <<>>],
     \* 14: no bank account, supplier with a DNI
     [BaseDoc EXCEPT !.has_means = FALSE, !.prov_id = DNI4],
     \* 15: supplier with a DNI
     [BaseDoc EXCEPT !.prov_id = DNI4],
     \* 16: detraction amount of sixteen digits of cents
     [BaseDoc EXCEPT !.amount = TXT_BIG],
     \* 17: the largest detraction amount that fits
     [BaseDoc EXCEPT !.amount = TXT_MAX],
     \* 18: detraction amount Infinity
     [BaseDoc EXCEPT !.amount = TXT_INF],
     \* 19: detraction amount that is no number
     [BaseDoc EXCEPT !.amount = TXT_ABC],
     \* 20: negative detraction amount, payable amount absent
     [BaseDoc EXCEPT !.amount = TXT_NEG, !.pay = <<>>],
     \* 21: detraction amount NaN
     [BaseDoc EXCEPT !.amount = TXT_NAN],
     \* 22: customer with a DNI, its name on a line of its own in the element
     [BaseDoc EXCEPT !.cli_id = DNI4,
                     !.cli_razon = <<LF, " ", "b", "o", "n", LF>>],
     \* 23: detraction code written with two digits
     [BaseDoc EXCEPT !.code = <<"4", "0">>],
     \* 24: detraction amount below half a cent
     [BaseDoc EXCEPT !.amount = TXT_TINY] >>

(***************************************************************************)
(* Parsing UBL 2.1.                                                        *)
(***************************************************************************)
OrZero(text) == IF text = <<>> THEN <<"0">> ELSE text

CommaToDot(text) == [i \in 1..Len(text) |-> IF text[i] = "," THEN "." ELSE text[i]]

\* Decimal(leer_text(pay) or "0")
PayableOf(doc) == ParseDecimal(OrZero(doc.pay))

\* Decimal((leer_text(amount).strip() or "0").replace(",", "."))
ImporteOf(doc) ==
  IF doc.has_term THEN ParseDecimal(CommaToDot(OrZero(strip(doc.amount))))
  ELSE DecZero

\* ET.parse or a Decimal constructor raises
ParseRaises(doc) ==
  \/ ~doc.wellformed
  \/ PayableOf(doc).kind = "err"
  \/ ImporteOf(doc).kind = "err"

parse_xml_fields(doc, path) ==
  LET cliente_doc_num == digits(doc.cli_id)
      comp_id == strip(doc.comp_id)
      dash    == IndexOf(comp_id, "-")
      s       == IF dash = 0 THEN comp_id ELSE SubSeq(comp_id, 1, dash - 1)
      num     == IF dash = 0 THEN comp_id ELSE SubSeq(comp_id, dash + 1, Len(comp_id))
  IN  [ proveedor_ruc    |-> digits(doc.prov_id),
        proveedor_razon  |-> sin_tildes_upper(doc.prov_razon),
        cliente_doc_tipo |-> IF Len(cliente_doc_num) = 11 THEN "6" ELSE "1",
        cliente_doc_num  |-> cliente_doc_num,
        cliente_razon    |-> sin_tildes_upper(doc.cli_razon),
        invoice_tipo     |-> IF doc.has_itc THEN rjust(strip(doc.itc), 2, "0")
                             ELSE <<"0", "1">>,
        serie            |-> ljust(Prefix(sin_tildes_upper(s), 4), 4, " "),
        numero           |-> rjust(Suffix(digits(num), 8), 8, "0"),
        periodo          |-> periodo_aaaamm(doc.issue_date),
        payable_amount   |-> PayableOf(doc),
        detrac_codigo    |-> IF doc.has_term THEN strip(doc.code) ELSE <<>>,
        detrac_importe   |-> ImporteOf(doc),
        cuenta_bn        |-> IF doc.has_means THEN digits(doc.cuenta) ELSE <<>>,
        tiene_detraccion |-> doc.has_term,
        source           |-> path.name,
        fullpath         |-> path,
        comprobante      |-> comp_id ]

(***************************************************************************)
(* Constructores de detalle (107 bytes).                                   *)
(***************************************************************************)
DetalleCommon(rec, tipo_operacion_txt) ==
  Rep("0", 9)
  \o rjust(Prefix(strip(rec.detrac_codigo), 3), 3, "0")
  \o rjust(Suffix(rec.cuenta_bn, 11), 11, "0")
  \o money15(rec.detrac_importe)
  \o rjust(Prefix(tipo_operacion_txt, 2), 2, "0")
  \o rjust(Prefix(rec.periodo, 6), 6, "0")
  \o rjust(Prefix(rec.invoice_tipo, 2), 2, "0")
  \o ljust(Prefix(rec.serie, 4), 4, " ")
  \o rjust(Suffix(rec.numero, 8), 8, "0")

NombreProveedor(rec) ==
  IF Len(rec.cliente_doc_num) = 11 /\ rec.detrac_codigo # <<"0", "4", "0">>
    THEN Rep(" ", 35)
  ELSE ljust(Prefix(sin_tildes_upper(rec.cliente_razon), 35), 35, " ")

DetalleProveedorText(rec, tipo_operacion_txt) ==
  <<IF Len(rec.cliente_doc_num) = 11 THEN "6" ELSE "1">>
  \o rjust(Suffix(rec.cliente_doc_num, 11), 11, "0")
  \o NombreProveedor(rec)
  \o DetalleCommon(rec, tipo_operacion_txt)

DetalleAdquirienteText(rec, tipo_operacion_txt) ==
  <<"6">>
  \o rjust(Suffix(rec.proveedor_ruc, 11), 11, "0")
  \o Rep(" ", 35)
  \o DetalleCommon(rec, tipo_operacion_txt)

\* variant: a line of any width is returned
DetalleWidthAny(detalle) == TRUE

\* the line is returned only when it measures 107; otherwise ValueError
DetalleWidthOk(detalle) == Len(detalle) = DetalleLen

construir_detalle_proveedor(rec, tipo_operacion_txt) ==
  IF money15Raises(rec.detrac_importe) THEN [raised |-> TRUE, detalle |-> <<>>]
  ELSE LET detalle == DetalleProveedorText(rec, tipo_operacion_txt)
       IN  IF DetalleWidthOk(detalle) THEN [raised |-> FALSE, detalle |-> detalle]
           ELSE [raised |-> TRUE, detalle |-> <<>>]

construir_detalle_adquiriente(rec, tipo_operacion_txt) ==
  IF money15Raises(rec.detrac_importe) THEN [raised |-> TRUE, detalle |-> <<>>]
  ELSE LET detalle == DetalleAdquirienteText(rec, tipo_operacion_txt)
       IN  IF DetalleWidthOk(detalle) THEN [raised |-> FALSE, detalle |-> detalle]
           ELSE [raised |-> TRUE, detalle |-> <<>>]

(***************************************************************************)
(* The file system.  A path is [dir, name]; paths sort as their strings    *)
(* do: by directory, then by file name.  The input directory and the       *)
(* staging directories are siblings with generated names, so a staging     *)
(* directory may sort before or after the input directory.                 *)
(***************************************************************************)
\* the characters of file names, in code point order
CharOrder ==
  <<".", "L", "M", "X", "a", "b", "c", "d", "e", "f", "g", "h", "l", "m", "r", "t", "x">>

\* str.lower() on those characters
LowerChar(ch) ==
  CASE ch = "L" -> "l"
    [] ch = "M" -> "m"
    [] ch = "X" -> "x"
    [] OTHER -> ch

lower(s) == [i \in 1..Len(s) |-> LowerChar(s[i])]

EXT_xml == <<".", "x", "m", "l">>

EXT_XML == <<".", "X", "M", "L">>

EXT_Xml == <<".", "X", "m", "l">>

EXT_txt == <<".", "t", "x", "t">>

FileName(stem, ext) == <<stem>> \o ext

\* glob patterns "**/*.xml" and "**/*.XML": the match is case-sensitive
GlobXml(name) == Suffix(name, 4) \in {EXT_xml, EXT_XML}

\* member.filename.lower().endswith(".xml")
MemberIsXml(name) == Suffix(lower(name), 4) = EXT_xml

\* directory names, in lexicographic order
DirOrder == <<"tmp1", "tmp5", "tmp9">>

InputDir == "tmp5"

TmpNames == {"tmp1", "tmp9"}

\* names of loose files: two the glob patterns match, one they do not
LooseNames == {FileName("a", EXT_xml), FileName("c", EXT_XML), FileName("e", EXT_Xml)}

ZipNames == {"x.zip", "y.zip"}

Rank(order, x) == CHOOSE i \in 1..Len(order) : order[i] = x

\* a < b for strings
RECURSIVE StrLess(_, _)
StrLess(a, b) ==
  IF b = <<>> THEN FALSE
  ELSE IF a = <<>> THEN TRUE
  ELSE IF Head(a) # Head(b) THEN Rank(CharOrder, Head(a)) < Rank(CharOrder, Head(b))
  ELSE StrLess(Tail(a), Tail(b))

PathLess(p, q) ==
  \/ Rank(DirOrder, p.dir) < Rank(DirOrder, q.dir)
  \/ p.dir = q.dir /\ StrLess(p.name, q.name)

\* sorted(paths)
RECURSIVE SortPaths(_)
SortPaths(S) ==
  IF S = {} THEN <<>>
  ELSE LET m == CHOOSE p \in S : \A q \in S \ {p} : PathLess(p, q)
       IN  <<m>> \o SortPaths(S \ {m})

Member(name, doc) == [name |-> name, doc |-> doc]

\* A zip archive: whether it opens, its members in archive order (base name
\* and document), and the member whose read fails (0: none).
ZipPool ==
  << [opens |-> TRUE, members |-> <<Member(FileName("b", EXT_xml), 1)>>, bad |-> 0],
     [opens |-> TRUE, members |-> <<Member(FileName("b", EXT_xml), 3)>>, bad |-> 0],
     [opens |-> TRUE, members |-> <<Member(FileName("b", EXT_xml), 4), Member(FileName("d", EXT_xml), 1)>>, bad |-> 2],
     [opens |-> FALSE, members |-> <<Member(FileName("b", EXT_xml), 1)>>, bad |-> 0],
     [opens |-> TRUE,
      members |-> <<Member(FileName("b", EXT_xml), 4), Member(FileName("d", EXT_xml), 8), Member(FileName("e", EXT_xml), 10),
                    Member(FileName("f", EXT_xml), 11), Member(FileName("g", EXT_xml), 13), Member(FileName("h", EXT_xml), 15),
                    Member(FileName("b", EXT_xml), 4)>>,
      bad |-> 0],
     [opens |-> TRUE,
      members |-> <<Member(FileName("d", EXT_xml), 4), Member(FileName("d", EXT_xml), 1)>>,
      bad |-> 0],
     [opens |-> TRUE,
      members |-> <<Member(FileName("r", EXT_txt), 8), Member(FileName("b", EXT_Xml), 1)>>,
      bad |-> 0] >>

DocIds == 1..Len(DocPool)

ZipIds == 1..Len(ZipPool)

\* the contents an input directory may have: loose files (name -> document)
\* and zip archives (name -> archive); the loose file the patterns do not
\* match is a valid invoice
Directories ==
  { d \in [xmls : UNION {[N -> DocIds] : N \in SUBSET LooseNames},
           zips : UNION {[N -> ZipIds] : N \in SUBSET ZipNames}] :
      /\ Cardinality(DOMAIN d.xmls) + Cardinality(DOMAIN d.zips) <= MaxFiles
      /\ \A n \in DOMAIN d.xmls : ~GlobXml(n) => d.xmls[n] = 1 }

\* write name -> doc into a directory listing, replacing a file of that name
WriteFile(files, name, doc) ==
  [n \in DOMAIN files \cup {name} |-> IF n = name THEN doc ELSE files[n]]

\* extract_xmls_from_zip: the members whose lower-cased name ends in .xml
\* are written one by one under their base name; a failing read leaves the
\* members written before it in place
RECURSIVE ExtractMembers(_, _, _, _)
ExtractMembers(files, members, i, bad) ==
  IF i > Len(members) THEN files
  ELSE IF ~MemberIsXml(members[i].name) THEN ExtractMembers(files, members, i + 1, bad)
  ELSE IF i = bad THEN files
  ELSE ExtractMembers(WriteFile(files, members[i].name, members[i].doc),
                      members, i + 1, bad)

extract_xmls_from_zip(files, zip) ==
  IF zip.opens THEN ExtractMembers(files, zip.members, 1, zip.bad) ELSE files

\* the loop over zips of run_pipeline, in the order glob lists them
RECURSIVE ExtractAll(_, _, _)
ExtractAll(files, zips, order) ==
  IF order = <<>> THEN files
  ELSE ExtractAll(extract_xmls_from_zip(files, ZipPool[zips[Head(order)]]),
                  zips, Tail(order))

\* the orders in which glob may list the files of a set
Listings(S) ==
  { o \in [1..Cardinality(S) -> S] : \A i, j \in 1..Cardinality(S) : i # j => o[i] # o[j] }

\* list_files_case_insensitive(base_dir, ["**/*.xml", "**/*.XML"])
list_files_case_insensitive(files) == {n \in DOMAIN files : GlobXml(n)}

\* final_xmls: the loose files and the staged files the listing finds, each
\* path once
FinalXmls(dir, tmp, staged) ==
  {[dir |-> InputDir, name |-> n] : n \in list_files_case_insensitive(dir.xmls)}
  \cup {[dir |-> tmp, name |-> n] : n \in list_files_case_insensitive(staged)}

(***************************************************************************)
(* Helpers.                                                                *)
(***************************************************************************)
Motivo(kind, arg) == [kind |-> kind, arg |-> arg]

M_XML == "XML invalido: "

M_PAYABLE == "PayableAmount < "

M_TERMS == "Sin PaymentTerms[ID='Detraccion']"

M_CODIGO == "Sin PaymentMeansID (codigo detraccion)"

M_WHITELIST == "Codigo no permitido: "

M_IMPORTE == "Importe de detraccion <= 0"

M_CUENTA == "Sin cuenta BN"

M_NORUC == "Proveedor no RUC (modo adquiriente)"

M_DETALLE == "Detalle invalido: "

\* the row add_omit appends
OmitRow(has_rec, rec, archivo, motivo) ==
  [ archivo        |-> archivo,
    comprobante    |-> IF has_rec THEN rec.comprobante ELSE <<>>,
    motivo         |-> motivo,
    payable_amount |-> IF has_rec THEN Fmt2(rec.payable_amount) ELSE <<>>,
    detrac_codigo  |-> IF has_rec THEN rec.detrac_codigo ELSE <<>>,
    detrac_importe |-> IF has_rec THEN Fmt2(rec.detrac_importe) ELSE <<>> ]

\* values of a field over the records that have it non-empty
FieldSet(records, f) ==
  {records[i][f] : i \in {j \in 1..Len(records) : records[j][f] # <<>>}}

NoError == [type |-> "none", msg |-> "", n |-> 0, resumen |-> <<>>]

Error(type, msg, n, resumen) == [type |-> type, msg |-> msg, n |-> n, resumen |-> resumen]

E_NOXML == "No se encontraron XML validos."

E_ADQUIRIENTES == "Modo 'adquiriente' seleccionado, pero se detectaron n adquirientes distintos"

E_PROVEEDORES == "Modo 'proveedor' seleccionado, pero hay n proveedores distintos"

E_CUENTAS == "Modo 'proveedor': se detectaron multiples cuentas BN"

E_TODOS_OMITIDOS == "No se genero el TXT porque no hay registros validos (todos fueron omitidos)."

E_SIN_XML == "No se genero el TXT: no se encontraron XML validos."

E_CABECERA == "Cabecera no mide 68"

E_DECIMAL == "decimal.InvalidOperation"

\* _preflight_validate: the error it raises, NoError when it returns
preflight_validate(records, tipo_depositante) ==
  LET proveedores  == FieldSet(records, "proveedor_ruc")
      adquirientes == FieldSet(records, "cliente_doc_num")
      cuentas_bn   == FieldSet(records, "cuenta_bn")
  IN  IF records = <<>> THEN NoError
      ELSE IF tipo_depositante = "adquiriente"
        THEN (IF Cardinality(adquirientes) # 1
                THEN Error("RuntimeError", E_ADQUIRIENTES, Cardinality(adquirientes), <<>>)
              ELSE NoError)
      ELSE IF Cardinality(proveedores) # 1
        THEN Error("RuntimeError", E_PROVEEDORES, Cardinality(proveedores), <<>>)
      ELSE IF Cardinality(cuentas_bn) # 1
        THEN Error("RuntimeError", E_CUENTAS, 0, <<>>)
      ELSE NoError

\* Counter(motivos): the distinct reasons in order of first appearance
RECURSIVE DistinctMotivos(_, _)
DistinctMotivos(rows, acc) ==
  IF rows = <<>> THEN acc
  ELSE DistinctMotivos(Tail(rows),
         IF \E i \in 1..Len(acc) : acc[i] = Head(rows).motivo THEN acc
         ELSE Append(acc, Head(rows).motivo))

CountMotivo(rows, m) == Cardinality({i \in 1..Len(rows) : rows[i].motivo = m})

\* most_common: by count, largest first; equal counts keep their order
RECURSIVE MostCommon(_, _)
MostCommon(rows, ms) ==
  IF ms = <<>> THEN <<>>
  ELSE LET best == CHOOSE i \in 1..Len(ms) :
                     /\ \A j \in 1..Len(ms) :
                          CountMotivo(rows, ms[j]) <= CountMotivo(rows, ms[i])
                     /\ \A j \in 1..(i - 1) :
                          CountMotivo(rows, ms[j]) < CountMotivo(rows, ms[i])
           rest == [k \in 1..(Len(ms) - 1) |-> IF k < best THEN ms[k] ELSE ms[k + 1]]
       IN  <<[motivo |-> ms[best], count |-> CountMotivo(rows, ms[best])]>>
           \o MostCommon(rows, rest)

\* _resumen_omitidos: the reasons and counts the message lists
resumen_omitidos(omitidos, max_motivos) ==
  Prefix(MostCommon(omitidos, DistinctMotivos(omitidos, <<>>)), max_motivos)

(***************************************************************************)
(* The per-file step of run_pipeline: what happens to one parsed record.   *)
(***************************************************************************)
\* variant: the file is skipped without a reject row
OmitSilently(rec, motivo) == [t |-> "skip", motivo |-> motivo, detalle |-> <<>>]

\* add_omit(...) followed by continue
Omit(rec, motivo) == [t |-> "omit", motivo |-> motivo, detalle |-> <<>>]

\* the mode-dependent choice of the detail layout
Construir(rec, tipo_operacion_txt, tipo_depositante) ==
  IF tipo_depositante = "proveedor"
    THEN construir_detalle_proveedor(rec, tipo_operacion_txt)
  ELSE construir_detalle_adquiriente(rec, tipo_operacion_txt)

\* variant: the rule is not applied
ReglaProveedorRucOff(rec, tipo_depositante) == FALSE

\* the supplier-must-be-RUC rule
ReglaProveedorRuc(rec, tipo_depositante) ==
  tipo_depositante = "adquiriente" /\ Len(rec.proveedor_ruc) # 11

\* variant: a payable amount equal to the minimum is rejected too
ReglaPayableLeq(rec, cfg) == DecLeq(rec.payable_amount, cfg.min_monto)

\* the minimum-amount rule: rec["payable_amount"] < min_monto
ReglaPayable(rec, cfg) == DecLess(rec.payable_amount, cfg.min_monto)

Validar(rec, cfg) ==
  IF CompareRaises(rec.payable_amount, cfg.min_monto)
    THEN [t |-> "raise", motivo |-> Motivo("", <<>>), detalle |-> <<>>]
  ELSE IF ReglaPayable(rec, cfg)
    THEN Omit(rec, Motivo(M_PAYABLE, Fmt2(cfg.min_monto)))
  ELSE IF ~rec.tiene_detraccion THEN Omit(rec, Motivo(M_TERMS, <<>>))
  ELSE IF rec.detrac_codigo = <<>> THEN Omit(rec, Motivo(M_CODIGO, <<>>))
  ELSE IF cfg.enforce_code_whitelist /\ rec.detrac_codigo \notin DEFAULT_CODE_WHITELIST
    THEN Omit(rec, Motivo(M_WHITELIST, rec.detrac_codigo))
  ELSE IF CompareRaises(rec.detrac_importe, DecZero)
    THEN [t |-> "raise", motivo |-> Motivo("", <<>>), detalle |-> <<>>]
  ELSE IF DecLeq(rec.detrac_importe, DecZero) THEN Omit(rec, Motivo(M_IMPORTE, <<>>))
  ELSE IF rec.cuenta_bn = <<>> THEN Omit(rec, Motivo(M_CUENTA, <<>>))
  ELSE IF ReglaProveedorRuc(rec, cfg.tipo_depositante) THEN Omit(rec, Motivo(M_NORUC, <<>>))
  ELSE LET d == Construir(rec, cfg.tipo_operacion_txt, cfg.tipo_depositante)
       IN  IF d.raised THEN Omit(rec, Motivo(M_DETALLE, <<>>))
           ELSE [t |-> "accept", motivo |-> Motivo("", <<>>), detalle |-> d.detalle]

(***************************************************************************)
(* Cabecera and total.                                                     *)
(***************************************************************************)
\* int(quantize(Decimal("0.01")) * 100) of one accepted amount
TotalCents(dec) == RoundHalfEven(dec.coef)

\* sum(...) over the accepted records
RECURSIVE SumCents(_)
SumCents(aceptados) ==
  IF aceptados = <<>> THEN NatZero
  ELSE NatAdd(TotalCents(Head(aceptados).rec.detrac_importe), SumCents(Tail(aceptados)))

Total15(aceptados) == rjust(DigitStr(SumCents(aceptados)), MoneyWidth, "0")

Indicador(tipo_depositante) == IF tipo_depositante = "proveedor" THEN "P" ELSE "*"

\* the tax id and the name the header and the file name carry
DepositanteRuc(tipo_depositante, prov_ruc, cli_ruc) ==
  IF tipo_depositante = "proveedor" THEN prov_ruc ELSE cli_ruc

DepositanteRazon(tipo_depositante, prov_razon, cli_razon) ==
  IF tipo_depositante = "proveedor" THEN prov_razon ELSE cli_razon

Ruc11(ruc) == rjust(Suffix(ruc, 11), 11, "0")

Razon35(razon) == ljust(Prefix(sin_tildes_upper(razon), 35), 35, " ")

Lote6(lote) == rjust(Suffix(lote, 6), 6, "0")

Cabecera(indicador, ruc11, razon35, lote6, total15) ==
  <<indicador>> \o ruc11 \o razon35 \o lote6 \o total15

\* variant: a header of any width is written
CabeceraWidthAny(cabecera) == TRUE

\* the header is written only when it measures 68; otherwise RuntimeError
CabeceraWidthOk(cabecera) == Len(cabecera) = CabeceraLen

OutName(ruc11, lote6) == <<"D">> \o ruc11 \o lote6 \o <<".", "t", "x", "t">>

OmitidosName == <<"o", "m", "i", "t", "i", "d", "o", "s", ".", "c", "s", "v">>

CsvHeader == "Archivo XML;Comprobante (Serie-Numero);Motivo de omision;Total del comprobante (PEN);Codigo de detraccion;Importe de detraccion (PEN)"

\* variant: the first reject row is left out of the report
CsvContentTail(rows) == [header |-> CsvHeader, rows |-> Tail(rows)]

\* what is written to omitidos.csv: the header row, then one row per reject
CsvContent(rows) == [header |-> CsvHeader, rows |-> rows]

(***************************************************************************)
(* In the actions a value computed once and used several times is bound   *)
(* by \E x \in {e}, which evaluates e a single time.                       *)
(*                                                                         *)
(* State.  Every variable but fs is a function of the run: two invocations *)
(* of run_pipeline, each with its input directory, its configuration and   *)
(* its output directory.  fs holds the staging directories, which live in  *)
(* the one temporary area all runs share.                                  *)
(***************************************************************************)
VARIABLES
  input,       \* the contents of the run's input directory
  cfg,         \* the arguments of the run
  pc,          \* where the run stands
  zip_order,   \* the order in which glob listed the run's zips
  tmpdir,      \* the name of the run's staging directory ("" when none)
  fs,          \* staging directory name -> [exists, files (name -> document)]
  final_xmls,  \* sorted(final_xmls) of the run
  pos,         \* number of files of final_xmls the loop has processed
  docs_read,   \* history: the documents parse_xml_fields was given, in order
  aceptados,   \* sequence of [rec, detalle]
  omitidos,    \* sequence of reject rows
  proveedor,   \* [ruc, razon]: proveedor_ruc, proveedor_razon
  cliente,     \* [ruc, razon]: cliente_ruc, cliente_razon
  txts,        \* the .txt files of the output directory: set of [name, lines]
  csvs,        \* the .csv files of the output directory: set of [name, rows]
  err,         \* the exception run_pipeline raised (NoError when none)
  money_in,    \* the amount text a call of money15 is made with (<<>> when none)
  money_out,   \* what that call returned or raised (NoMoney before it)
  periodo_in,  \* the issue date a call of periodo_aaaamm is made with
  periodo_out  \* what that call returned (NoPeriodo before it)

vars == <<input, cfg, pc, zip_order, tmpdir, fs, final_xmls, pos, docs_read, aceptados,
          omitidos, proveedor, cliente, txts, csvs, err, money_in, money_out,
          periodo_in, periodo_out>>

Runs == {1, 2}

Config(tipo_depositante, enforce) ==
  [ lote                   |-> Lote,
    min_monto              |-> MinMonto,
    tipo_operacion_txt     |-> DEFAULT_TIPO_OPERACION_TXT,
    enforce_code_whitelist |-> enforce,
    tipo_depositante       |-> tipo_depositante ]

Configs == {Config(m, e) : m \in Modes, e \in BOOLEAN}

NoParty == [ruc |-> <<>>, razon |-> <<>>]

NoTmp == ""

NoMoney == [t |-> "none", text |-> <<>>]

NoPeriodo == [t |-> "none", text |-> <<>>]

\* the state before any run has started; the runs of `started` will execute
InitWith(dirs, started) ==
  /\ \E d \in dirs : input = [r \in Runs |-> d]
  /\ \E c \in Configs : cfg = [r \in Runs |-> c]
  /\ pc = [r \in Runs |-> IF r \in started THEN "start" ELSE "idle"]
  /\ zip_order = [r \in Runs |-> <<>>]
  /\ tmpdir = [r \in Runs |-> NoTmp]
  /\ fs = [t \in TmpNames |-> [exists |-> FALSE, files |-> <<>>]]
  /\ final_xmls = [r \in Runs |-> <<>>]
  /\ pos = [r \in Runs |-> 0]
  /\ docs_read = [r \in Runs |-> <<>>]
  /\ aceptados = [r \in Runs |-> <<>>]
  /\ omitidos = [r \in Runs |-> <<>>]
  /\ proveedor = [r \in Runs |-> NoParty]
  /\ cliente = [r \in Runs |-> NoParty]
  /\ txts = [r \in Runs |-> {}]
  /\ csvs = [r \in Runs |-> {}]
  /\ err = [r \in Runs |-> NoError]
  /\ money_in = <<>>
  /\ money_out = NoMoney
  /\ periodo_in = <<>>
  /\ periodo_out = NoPeriodo

Init == InitWith(Directories, {1})

\* leaving the TemporaryDirectory block removes the staging directory
Cleanup(r) == fs' = [fs EXCEPT ![tmpdir[r]] = [exists |-> FALSE, files |-> <<>>]]

\* the document a path of the run holds (0: there is no such file)
DocIdAt(r, path) ==
  IF path.dir = InputDir THEN input[r].xmls[path.name]
  ELSE IF fs[path.dir].exists /\ path.name \in DOMAIN fs[path.dir].files
    THEN fs[path.dir].files[path.name]
  ELSE 0

\* variant: the staging directory is not a fresh one
FreshTmpAny(t) == TRUE

\* TemporaryDirectory() creates a directory that did not exist
FreshTmp(t) == ~fs[t].exists

(***************************************************************************)
(* run_pipeline, lines 302-326: create the staging directory, list the     *)
(* input, extract the zips, build final_xmls; raise when it is empty.      *)
(***************************************************************************)
Collect(r) ==
  /\ pc[r] = "start"
  /\ \E t \in TmpNames, order \in Listings(DOMAIN input[r].zips) :
       /\ FreshTmp(t)
       /\ \E staged \in {ExtractAll(<<>>, input[r].zips, order)} :
          \E found \in {SortPaths(FinalXmls(input[r], t, staged))} :
              /\ zip_order' = [zip_order EXCEPT ![r] = order]
              /\ tmpdir' = [tmpdir EXCEPT ![r] = t]
              /\ final_xmls' = [final_xmls EXCEPT ![r] = found]
              /\ IF found = <<>>
                   THEN /\ pc' = [pc EXCEPT ![r] = "raised"]
                        /\ err' = [err EXCEPT ![r] = Error("RuntimeError", E_NOXML, 0, <<>>)]
                        /\ fs' = fs
                   ELSE /\ pc' = [pc EXCEPT ![r] = "loop"]
                        /\ err' = err
                        /\ fs' = [fs EXCEPT ![t] = [exists |-> TRUE, files |-> staged]]
  /\ UNCHANGED <<input, cfg, pos, docs_read, aceptados, omitidos, proveedor, cliente, txts, csvs,
                 money_in, money_out, periodo_in, periodo_out>>

(***************************************************************************)
(* run_pipeline, lines 332-377: one iteration of the per-file loop.        *)
(***************************************************************************)
\* the exception parse_xml_fields raises for a document that does not parse
ParseError(id) ==
  IF id = 0 THEN "FileNotFoundError"
  ELSE IF DocPool[id].wellformed THEN "ConversionSyntax"
  ELSE "ParseError"

FirstParty(old, ruc, razon) ==
  IF old.ruc = <<>> /\ ruc # <<>> THEN [ruc |-> ruc, razon |-> razon] ELSE old

ProcessFile(r) ==
  /\ pc[r] = "loop"
  /\ pos[r] < Len(final_xmls[r])
  /\ \E path \in {final_xmls[r][pos[r] + 1]} :
     \E id \in {DocIdAt(r, path)} :
         IF id = 0 \/ ParseRaises(DocPool[id])
           THEN /\ omitidos' = [omitidos EXCEPT ![r] =
                      Append(@, OmitRow(FALSE, <<>>, path.name, Motivo(M_XML, ParseError(id))))]
                /\ pos' = [pos EXCEPT ![r] = @ + 1]
                /\ UNCHANGED <<pc, fs, aceptados, proveedor, cliente, err>>
         ELSE \E rec \in {parse_xml_fields(DocPool[id], path)} :
              \E res \in {Validar(rec, cfg[r])} :
                  /\ proveedor' = [proveedor EXCEPT ![r] =
                        FirstParty(@, rec.proveedor_ruc, rec.proveedor_razon)]
                  /\ cliente' = [cliente EXCEPT ![r] =
                        FirstParty(@, rec.cliente_doc_num, rec.cliente_razon)]
                  /\ IF res.t = "raise"
                       THEN /\ pc' = [pc EXCEPT ![r] = "raised"]
                            /\ err' = [err EXCEPT ![r] = Error("InvalidOperation", E_DECIMAL, 0, <<>>)]
                            /\ Cleanup(r)
                            /\ UNCHANGED <<pos, aceptados, omitidos>>
                     ELSE /\ pos' = [pos EXCEPT ![r] = @ + 1]
                          /\ aceptados' = [aceptados EXCEPT ![r] =
                                IF res.t = "accept"
                                  THEN Append(@, [rec |-> rec, detalle |-> res.detalle])
                                ELSE @]
                          /\ omitidos' = [omitidos EXCEPT ![r] =
                                IF res.t = "omit"
                                  THEN Append(@, OmitRow(TRUE, rec, rec.source, res.motivo))
                                ELSE @]
                          /\ UNCHANGED <<pc, fs, err>>
  /\ docs_read' = [docs_read EXCEPT ![r] = Append(@, DocIdAt(r, final_xmls[r][pos[r] + 1]))]
  /\ UNCHANGED <<input, cfg, zip_order, tmpdir, final_xmls, txts, csvs, money_in, money_out, periodo_in, periodo_out>>

(***************************************************************************)
(* run_pipeline, lines 379-381: the coherence check over the accepted      *)
(* records, once the loop has ended.                                       *)
(***************************************************************************)
AcceptedRecs(acc) == [i \in 1..Len(acc) |-> acc[i].rec]

\* the record the loop built from the i-th document it read
RecAt(r, i) == parse_xml_fields(DocPool[docs_read[r][i]], final_xmls[r][i])

\* the records of all documents that parsed, accepted or not
ParsedRecs(r) ==
  LET ok == SelectSeq([i \in 1..Len(docs_read[r]) |-> i],
                      LAMBDA i : ~ParseRaises(DocPool[docs_read[r][i]]))
  IN  [k \in 1..Len(ok) |-> RecAt(r, ok[k])]

\* mutant: the coherence check sees every parsed record, rejected ones too
PreflightAllParsed(r) ==
  /\ pc[r] = "loop"
  /\ pos[r] = Len(final_xmls[r])
  /\ \E e \in {preflight_validate(ParsedRecs(r), cfg[r].tipo_depositante)} :
         IF e.type # "none"
           THEN /\ pc' = [pc EXCEPT ![r] = "raised"]
                /\ err' = [err EXCEPT ![r] = e]
                /\ Cleanup(r)
           ELSE /\ pc' = [pc EXCEPT ![r] = "emit"]
                /\ UNCHANGED <<err, fs>>
  /\ UNCHANGED <<input, cfg, zip_order, tmpdir, final_xmls, pos, docs_read, aceptados, omitidos,
                 proveedor, cliente, txts, csvs, money_in, money_out, periodo_in, periodo_out>>

\* mutant: a failed coherence check writes the reject report before it raises
PreflightWritesReport(r) ==
  /\ pc[r] = "loop"
  /\ pos[r] = Len(final_xmls[r])
  /\ \E e \in {preflight_validate(AcceptedRecs(aceptados[r]), cfg[r].tipo_depositante)} :
         IF e.type # "none"
           THEN /\ pc' = [pc EXCEPT ![r] = "raised"]
                /\ err' = [err EXCEPT ![r] = e]
                /\ csvs' = [csvs EXCEPT ![r] =
                      IF omitidos[r] # <<>>
                        THEN {[name |-> OmitidosName, lines |-> CsvContent(omitidos[r])]}
                      ELSE @]
                /\ Cleanup(r)
           ELSE /\ pc' = [pc EXCEPT ![r] = "emit"]
                /\ UNCHANGED <<err, fs, csvs>>
  /\ UNCHANGED <<input, cfg, zip_order, tmpdir, final_xmls, pos, docs_read, aceptados, omitidos,
                 proveedor, cliente, txts, money_in, money_out, periodo_in, periodo_out>>

Preflight(r) ==
  /\ pc[r] = "loop"
  /\ pos[r] = Len(final_xmls[r])
  /\ \E e \in {preflight_validate(AcceptedRecs(aceptados[r]), cfg[r].tipo_depositante)} :
         IF e.type # "none"
           THEN /\ pc' = [pc EXCEPT ![r] = "raised"]
                /\ err' = [err EXCEPT ![r] = e]
                /\ Cleanup(r)
           ELSE /\ pc' = [pc EXCEPT ![r] = "emit"]
                /\ UNCHANGED <<err, fs>>
  /\ UNCHANGED <<input, cfg, zip_order, tmpdir, final_xmls, pos, docs_read, aceptados, omitidos,
                 proveedor, cliente, txts, csvs, money_in, money_out, periodo_in, periodo_out>>

(***************************************************************************)
(* run_pipeline, lines 383-436: without accepted records write the reject  *)
(* report and raise; otherwise build the header and write the .txt.        *)
(***************************************************************************)
\* open(path, "w") and the writes that follow
WriteOut(files, name, content) ==
  {f \in files : f.name # name} \cup {[name |-> name, lines |-> content]}

\* variant: the .txt is written before the width of the header is checked
TxtOnHeaderErrorWritten(files, name, content) == WriteOut(files, name, content)

\* the .txt files after a header of the wrong width: the raise comes before
\* the file is opened, nothing is written
TxtOnHeaderError(files, name, content) == files

\* the text written: the header and each detail followed by a line feed
RECURSIVE TxtText(_, _)
TxtText(cabecera, acc) ==
  IF acc = <<>> THEN cabecera \o <<LF>>
  ELSE TxtText(cabecera, SubSeq(acc, 1, Len(acc) - 1)) \o acc[Len(acc)].detalle \o <<LF>>

\* the lines of a text in which every line ends with a line feed
RECURSIVE SplitLines(_)
SplitLines(text) ==
  IF text = <<>> THEN <<>>
  ELSE LET k == IndexOf(text, LF)
       IN  <<Prefix(text, k - 1)>> \o SplitLines(SubSeq(text, k + 1, Len(text)))

\* the lines of the .txt on disk
TxtLines(cabecera, acc) == SplitLines(TxtText(cabecera, acc))

Emit(r) ==
  /\ pc[r] = "emit"
  /\ IF aceptados[r] = <<>>
       THEN /\ pc' = [pc EXCEPT ![r] = "raised"]
            /\ Cleanup(r)
            /\ txts' = txts
            /\ IF omitidos[r] # <<>>
                 THEN /\ csvs' = [csvs EXCEPT ![r] = WriteOut(@, OmitidosName, CsvContent(omitidos[r]))]
                      /\ err' = [err EXCEPT ![r] =
                            Error("RuntimeError", E_TODOS_OMITIDOS, 0,
                                  resumen_omitidos(omitidos[r], MaxMotivos))]
                 ELSE /\ csvs' = csvs
                      /\ err' = [err EXCEPT ![r] = Error("RuntimeError", E_SIN_XML, 0, <<>>)]
       ELSE \E modo \in {cfg[r].tipo_depositante} :
            \E ruc11 \in {Ruc11(DepositanteRuc(modo, proveedor[r].ruc, cliente[r].ruc))} :
            \E razon35 \in {Razon35(DepositanteRazon(modo, proveedor[r].razon, cliente[r].razon))} :
            \E lote6 \in {Lote6(cfg[r].lote)} :
            \E cabecera \in {Cabecera(Indicador(modo), ruc11, razon35, lote6,
                                      Total15(aceptados[r]))} :
                /\ csvs' = csvs
                /\ IF ~CabeceraWidthOk(cabecera)
                     THEN /\ pc' = [pc EXCEPT ![r] = "raised"]
                          /\ err' = [err EXCEPT ![r] =
                                Error("RuntimeError", E_CABECERA, Len(cabecera), <<>>)]
                          /\ Cleanup(r)
                          /\ txts' = [txts EXCEPT ![r] =
                                TxtOnHeaderError(@, OutName(ruc11, lote6),
                                                 TxtLines(cabecera, aceptados[r]))]
                     ELSE /\ pc' = [pc EXCEPT ![r] = "omit"]
                          /\ txts' = [txts EXCEPT ![r] =
                                WriteOut(@, OutName(ruc11, lote6),
                                         TxtLines(cabecera, aceptados[r]))]
                          /\ UNCHANGED <<err, fs>>
  /\ UNCHANGED <<input, cfg, zip_order, tmpdir, final_xmls, pos, docs_read, aceptados, omitidos,
                 proveedor, cliente, money_in, money_out, periodo_in, periodo_out>>

(***************************************************************************)
(* run_pipeline, lines 440-461: the reject report after the .txt, and the  *)
(* return.                                                                 *)
(***************************************************************************)
WriteOmitidos(r) ==
  /\ pc[r] = "omit"
  /\ pc' = [pc EXCEPT ![r] = "done"]
  /\ csvs' = [csvs EXCEPT ![r] =
        IF omitidos[r] # <<>> THEN WriteOut(@, OmitidosName, CsvContent(omitidos[r])) ELSE @]
  /\ Cleanup(r)
  /\ UNCHANGED <<input, cfg, zip_order, tmpdir, final_xmls, pos, docs_read, aceptados, omitidos,
                 proveedor, cliente, txts, err, money_in, money_out, periodo_in, periodo_out>>

Next ==
  \E r \in Runs :
    \/ Collect(r)
    \/ ProcessFile(r)
    \/ Preflight(r)
    \/ Emit(r)
    \/ WriteOmitidos(r)

Spec == Init /\ [][Next]_vars

\* two runs on the same input directory contents with the same configuration
InitTwo == InitWith(Directories, Runs)

SpecTwo == InitTwo /\ [][Next]_vars

(***************************************************************************)
(* Vocabulary of the properties.                                           *)
(***************************************************************************)
Terminal(r) == pc[r] \in {"done", "raised"}

\* the per-file loop of the run has ended
LoopDone(r) == pc[r] \in {"emit", "omit", "done", "raised"} /\ pos[r] = Len(final_xmls[r])
               /\ final_xmls[r] # <<>>

CoherenceErrors == {E_ADQUIRIENTES, E_PROVEEDORES, E_CUENTAS}

\* fields of the header line
HeaderRuc(line) == SubSeq(line, 2, 12)

HeaderRazon(line) == SubSeq(line, 13, 47)

HeaderTotal(line) == SubSeq(line, 54, 68)

\* fields of a detail line
DetailImporte(line) == SubSeq(line, 71, 85)

\* the number a field of decimal digits holds
FieldNat(field) == NatNorm([i \in 1..Len(field) |-> DigitVal(field[i])])

RECURSIVE SumDetailImportes(_, _)
SumDetailImportes(lines, i) ==
  IF i > Len(lines) THEN NatZero
  ELSE NatAdd(FieldNat(DetailImporte(lines[i])), SumDetailImportes(lines, i + 1))

\* text cut and left-justified with blanks to a width
BlankPad(text, n) == Prefix(text, n) \o Rep(" ", n - Len(Prefix(text, n)))

\* the lines of the file have the widths of a header and of details
WellFormed(f) ==
  /\ Len(f.lines) >= 1
  /\ Len(f.lines[1]) = 68
  /\ \A i \in 2..Len(f.lines) : Len(f.lines[i]) = 107

(***************************************************************************)
(* C1.  In every .txt written the header line is exactly 68 characters     *)
(* long and every detail line is exactly 107 characters long.              *)
(***************************************************************************)
C1_LineWidths == \A r \in Runs : \A f \in txts[r] : WellFormed(f)

(***************************************************************************)
(* C2.  The checks are applied in the order 1..7: a parsed record that     *)
(* fails one or more checks is not accepted and gets exactly one reject    *)
(* row, whose reason is that of the lowest-numbered check it fails.        *)
(***************************************************************************)
C2_Geq(a, b) == a.kind # "nan" /\ b.kind # "nan" /\ ~DecLess(a, b)

C2_Pos(a) == a.kind # "nan" /\ DecLess(DecZero, a)

C2_Fails(k, rec, c) ==
  CASE k = 1 -> ~C2_Geq(rec.payable_amount, c.min_monto)
    [] k = 2 -> ~rec.tiene_detraccion
    [] k = 3 -> rec.detrac_codigo = <<>>
    [] k = 4 -> c.enforce_code_whitelist /\ rec.detrac_codigo \notin DEFAULT_CODE_WHITELIST
    [] k = 5 -> ~C2_Pos(rec.detrac_importe)
    [] k = 6 -> rec.cuenta_bn = <<>>
    [] k = 7 -> c.tipo_depositante = "adquiriente" /\ Len(rec.proveedor_ruc) # 11

C2_Reason == <<M_PAYABLE, M_TERMS, M_CODIGO, M_WHITELIST, M_IMPORTE, M_CUENTA, M_NORUC>>

C2_RowsOf(r, name) == {i \in 1..Len(omitidos[r]) : omitidos[r][i].archivo = name}

C2_FirstFailingCheck ==
  \A r \in Runs : \A i \in 1..Len(docs_read[r]) :
    ~ParseRaises(DocPool[docs_read[r][i]]) =>
      \A rec \in {RecAt(r, i)} :
        \A failing \in {{k \in 1..7 : C2_Fails(k, rec, cfg[r])}} :
          failing # {} =>
            /\ \A j \in 1..Len(aceptados[r]) : aceptados[r][j].rec.source # rec.source
            /\ Cardinality(C2_RowsOf(r, rec.source)) = 1
            /\ \A j \in C2_RowsOf(r, rec.source) :
                 omitidos[r][j].motivo.kind =
                   C2_Reason[CHOOSE k \in failing : \A m \in failing : k <= m]

(***************************************************************************)
(* C3.  In every .txt written (here: whose lines have the widths of a      *)
(* header and of details) the total field of the header equals the sum of  *)
(* the amount fields of the detail lines of the file.                      *)
(***************************************************************************)
C3_TotalIsSumOfDetails ==
  \A r \in Runs : \A f \in txts[r] :
    WellFormed(f) => FieldNat(HeaderTotal(f.lines[1])) = SumDetailImportes(f.lines, 2)

(***************************************************************************)
(* C4.  In every .txt written the tax id and the name of the header, and   *)
(* the tax id of the file name, are those the accepted records share: the  *)
(* supplier's in supplier mode, the customer's in acquirer mode.  Stated   *)
(* for files whose lines have the widths of a header and of details, and   *)
(* for records whose tax ids have 11 digits.                               *)
(***************************************************************************)
C4_Ruc(rec, modo) == IF modo = "proveedor" THEN rec.proveedor_ruc ELSE rec.cliente_doc_num

C4_Razon(rec, modo) == IF modo = "proveedor" THEN rec.proveedor_razon ELSE rec.cliente_razon

C4_HeaderIsDepositor ==
  \A r \in Runs : \A f \in txts[r] :
    \A modo \in {cfg[r].tipo_depositante} : \A recs \in {AcceptedRecs(aceptados[r])} :
      ( /\ WellFormed(f)
        /\ Len(recs[1].proveedor_ruc) = 11
        /\ Len(recs[1].cliente_doc_num) = 11
        /\ \A i \in 1..Len(recs) :
             /\ C4_Ruc(recs[i], modo) = C4_Ruc(recs[1], modo)
             /\ C4_Razon(recs[i], modo) = C4_Razon(recs[1], modo) )
      => /\ HeaderRuc(f.lines[1]) = C4_Ruc(recs[1], modo)
         /\ HeaderRazon(f.lines[1]) = BlankPad(C4_Razon(recs[1], modo), 35)
         /\ SubSeq(f.name, 2, 12) = C4_Ruc(recs[1], modo)

(***************************************************************************)
(* C5.  In acquirer mode a .txt is written only if the set of customer     *)
(* document numbers over all accepted records has exactly one member;      *)
(* otherwise the run raises a RuntimeError that states the number of       *)
(* distinct acquirers, and writes no .txt.                                 *)
(***************************************************************************)
AllValues(records, f) == {records[i][f] : i \in 1..Len(records)}

C5_SingleAcquirer ==
  \A r \in Runs :
    cfg[r].tipo_depositante = "adquiriente" =>
      \A n \in {Cardinality(AllValues(AcceptedRecs(aceptados[r]), "cliente_doc_num"))} :
        /\ txts[r] # {} => n = 1
        /\ (Terminal(r) /\ LoopDone(r) /\ aceptados[r] # <<>> /\ n # 1) =>
             /\ txts[r] = {}
             /\ err[r].type = "RuntimeError"
             /\ err[r].msg = E_ADQUIRIENTES
             /\ err[r].n = n

(***************************************************************************)
(* C6.  In supplier mode a .txt is written only if the set of supplier tax *)
(* ids and the set of bank accounts, each over all accepted records, have  *)
(* exactly one member; otherwise the run raises a RuntimeError and writes  *)
(* no .txt.                                                                *)
(***************************************************************************)
C6_SingleSupplierAndAccount ==
  \A r \in Runs :
    cfg[r].tipo_depositante = "proveedor" =>
      \A np \in {Cardinality(AllValues(AcceptedRecs(aceptados[r]), "proveedor_ruc"))} :
      \A nc \in {Cardinality(AllValues(AcceptedRecs(aceptados[r]), "cuenta_bn"))} :
        /\ txts[r] # {} => (np = 1 /\ nc = 1)
        /\ (Terminal(r) /\ LoopDone(r) /\ aceptados[r] # <<>> /\ ~(np = 1 /\ nc = 1)) =>
             /\ txts[r] = {}
             /\ err[r].type = "RuntimeError"
             /\ err[r].msg \in {E_PROVEEDORES, E_CUENTAS}

(***************************************************************************)
(* C7.  Rejected records never influence the coherence check, which runs   *)
(* once the loop has ended: when the accepted records all carry the same   *)
(* non-empty customer document number (acquirer mode), or the same         *)
(* non-empty supplier tax id and the same bank account (supplier mode),    *)
(* the run does not fail on coherence, whatever the rejected files hold.   *)
(***************************************************************************)
C7_Coherent(recs, modo) ==
  IF modo = "adquiriente"
    THEN \A i \in 1..Len(recs) :
           recs[i].cliente_doc_num # <<>> /\ recs[i].cliente_doc_num = recs[1].cliente_doc_num
  ELSE \A i \in 1..Len(recs) :
         /\ recs[i].proveedor_ruc # <<>> /\ recs[i].proveedor_ruc = recs[1].proveedor_ruc
         /\ recs[i].cuenta_bn # <<>> /\ recs[i].cuenta_bn = recs[1].cuenta_bn

C7_RejectedDoNotCount ==
  \A r \in Runs :
    /\ err[r].msg \in CoherenceErrors => LoopDone(r)
    /\ (LoopDone(r) /\ C7_Coherent(AcceptedRecs(aceptados[r]), cfg[r].tipo_depositante))
         => err[r].msg \notin CoherenceErrors

\* a run that returned although a rejected file named another customer and
\* another supplier than the accepted records
C7_Witness ==
  \E r \in Runs :
    /\ pc[r] = "done"
    /\ aceptados[r] # <<>>
    /\ \E i \in 1..Len(docs_read[r]) :
         /\ ~ParseRaises(DocPool[docs_read[r][i]])
         /\ \A rec \in {RecAt(r, i)} :
              /\ \E j \in 1..Len(omitidos[r]) : omitidos[r][j].archivo = rec.source
              /\ rec.cliente_doc_num # <<>>
              /\ rec.proveedor_ruc # <<>>
              /\ rec.cliente_doc_num # aceptados[r][1].rec.cliente_doc_num
              /\ rec.proveedor_ruc # aceptados[r][1].rec.proveedor_ruc

(***************************************************************************)
(* C8.  Two runs on the same input directory contents with the same        *)
(* configuration leave the same .txt and the same omitidos.csv, whatever   *)
(* staging directory name each obtains and whatever order the file system  *)
(* lists the input in.                                                     *)
(***************************************************************************)
C8_SameOutputs ==
  ( /\ Terminal(1) /\ Terminal(2)
    /\ input[1] = input[2]
    /\ cfg[1] = cfg[2] )
  => /\ txts[1] = txts[2]
     /\ csvs[1] = csvs[2]

(***************************************************************************)
(* C9.  When at least one XML is found but no record is accepted, the run  *)
(* writes no .txt, writes omitidos.csv with the reject rows and raises a   *)
(* RuntimeError that lists the most frequent reasons with their counts, at *)
(* most 5 and most frequent first.                                         *)
(***************************************************************************)
C9_ResumenOk(resumen, rows) ==
  LET motivos == {rows[i].motivo : i \in 1..Len(rows)}
      listed  == {resumen[i].motivo : i \in 1..Len(resumen)}
  IN  /\ Len(resumen) = Min2(5, Cardinality(motivos))
      /\ Cardinality(listed) = Len(resumen)
      /\ listed \subseteq motivos
      /\ \A i \in 1..Len(resumen) : resumen[i].count = CountMotivo(rows, resumen[i].motivo)
      /\ \A i \in 1..Len(resumen) : \A j \in 1..Len(resumen) :
           i < j => resumen[i].count >= resumen[j].count
      /\ \A m \in motivos \ listed : \A i \in 1..Len(resumen) :
           CountMotivo(rows, m) <= resumen[i].count

C9_AllRejected ==
  \A r \in Runs :
    (Terminal(r) /\ final_xmls[r] # <<>> /\ aceptados[r] = <<>>) =>
      /\ txts[r] = {}
      /\ csvs[r] = {[name |-> OmitidosName,
                      lines |-> [header |-> CsvHeader, rows |-> omitidos[r]]]}
      /\ omitidos[r] # <<>>
      /\ err[r].type = "RuntimeError"
      /\ err[r].msg = E_TODOS_OMITIDOS
      /\ C9_ResumenOk(err[r].resumen, omitidos[r])

(***************************************************************************)
(* C10.  The 'no valid XML files found' error is raised exactly when the   *)
(* input directory yields no XML file (no XML file on disk and none        *)
(* extracted from a zip); it is raised before anything is parsed and       *)
(* nothing is written, and it is not the error of the all-rejected case.   *)
(***************************************************************************)
\* a file name with the extension .xml, in any case
C10_IsXmlName(name) == Len(name) >= 4 /\ lower(SubSeq(name, Len(name) - 3, Len(name))) = EXT_xml

C10_NoXml(dir) ==
  /\ \A n \in DOMAIN dir.xmls : ~C10_IsXmlName(n)
  /\ \A z \in DOMAIN dir.zips : extract_xmls_from_zip(<<>>, ZipPool[dir.zips[z]]) = <<>>

C10_NoInputError ==
  \A r \in Runs :
    /\ err[r].msg = E_NOXML =>
         /\ C10_NoXml(input[r])
         /\ pc[r] = "raised"
         /\ err[r].type = "RuntimeError"
         /\ docs_read[r] = <<>>
         /\ txts[r] = {} /\ csvs[r] = {}
    /\ (C10_NoXml(input[r]) /\ pc[r] \notin {"idle", "start"}) =>
         /\ err[r].msg = E_NOXML
         /\ pc[r] = "raised"
    /\ (omitidos[r] # <<>> /\ Terminal(r) /\ aceptados[r] = <<>>
          /\ err[r].type = "RuntimeError")
         => err[r].msg \notin {E_NOXML, E_SIN_XML}

(***************************************************************************)
(* C11.  No single file's content aborts the run: the per-file loop turns  *)
(* every failure into a reject row and goes on to the next file, so the    *)
(* run raises only for no input, a coherence violation, zero accepted      *)
(* records or a header of the wrong width, and then only a RuntimeError    *)
(* raised outside the loop.                                                *)
(***************************************************************************)
C11_AllowedErrors ==
  {E_NOXML, E_TODOS_OMITIDOS, E_SIN_XML, E_CABECERA} \cup CoherenceErrors

C11_NoFileAborts ==
  \A r \in Runs :
    /\ err[r].type \in {"none", "RuntimeError"}
    /\ err[r].type = "RuntimeError" => err[r].msg \in C11_AllowedErrors
    /\ pc[r] = "raised" => pos[r] = Len(final_xmls[r])
    /\ pc[r] \in {"loop", "emit", "omit", "done", "raised"} =>
         Len(aceptados[r]) + Len(omitidos[r]) = pos[r]

(***************************************************************************)
(* C12.  A file gets the 'invalid XML' reason, without record payload,     *)
(* only when its document is not well-formed XML: a well-formed document   *)
(* whose amounts are missing or are not decimal numbers is still turned    *)
(* into a record, and a reject row for it echoes its comprobante id and    *)
(* its code.                                                               *)
(***************************************************************************)
C12_RowsOfFile(r, k) ==
  {j \in 1..Len(omitidos[r]) : omitidos[r][j].archivo = final_xmls[r][k].name}

C12_InvalidXmlOnlyNotWellFormed ==
  \A r \in Runs : \A k \in 1..Len(docs_read[r]) :
    \A doc \in {DocPool[docs_read[r][k]]} :
      doc.wellformed =>
        \A j \in C12_RowsOfFile(r, k) :
          /\ omitidos[r][j].motivo.kind # M_XML
          /\ omitidos[r][j].comprobante = strip(doc.comp_id)
          /\ omitidos[r][j].detrac_codigo = (IF doc.has_term THEN strip(doc.code) ELSE <<>>)
          /\ omitidos[r][j].payable_amount # <<>>
          /\ omitidos[r][j].detrac_importe # <<>>

(***************************************************************************)
(* C13.  When extracting a zip raises, on opening it or while reading a    *)
(* member, none of that zip's XML members is among the files processed.    *)
(* Stated for directories all of whose zips raise: no staged file is in    *)
(* the list of files the run goes on to process.                           *)
(***************************************************************************)
C13_ZipRaises(zip) ==
  \/ ~zip.opens
  \/ /\ zip.bad \in 1..Len(zip.members)
     /\ MemberIsXml(zip.members[zip.bad].name)

C13_FailedZipContributesNothing ==
  \A r \in Runs :
    ( /\ pc[r] \notin {"idle", "start"}
      /\ \A z \in DOMAIN input[r].zips : C13_ZipRaises(ZipPool[input[r].zips[z]]) )
    => \A k \in 1..Len(final_xmls[r]) : final_xmls[r][k].dir = InputDir

(***************************************************************************)
(* C14.  Starting from an empty output directory, after any run the        *)
(* output directory holds at most one .txt and at most one omitidos.csv,   *)
(* and a .txt is present exactly when the run returned without raising.    *)
(***************************************************************************)
C14_OutputFiles ==
  \A r \in Runs :
    /\ Cardinality(txts[r]) <= 1
    /\ Cardinality(csvs[r]) <= 1
    /\ \A f \in txts[r] : Suffix(f.name, 4) = EXT_txt
    /\ \A f \in csvs[r] : f.name = OmitidosName
    /\ Terminal(r) => (txts[r] # {} <=> pc[r] = "done")

\* a run that raised on the width of the header, after accepting records,
\* and left no .txt
C14_Witness ==
  \E r \in Runs :
    /\ pc[r] = "raised"
    /\ err[r].msg = E_CABECERA
    /\ aceptados[r] # <<>>
    /\ txts[r] = {}

(***************************************************************************)
(* C15.  On every run that writes a .txt, omitidos.csv is written if and   *)
(* only if at least one file was rejected, and it then holds the header    *)
(* row followed by exactly one row per rejected file, in the order the     *)
(* files were processed.                                                   *)
(***************************************************************************)
\* the files of the run that were not accepted, in processing order
C15_Rejected(r) ==
  SelectSeq(final_xmls[r],
            LAMBDA p : \A i \in 1..Len(aceptados[r]) : aceptados[r][i].rec.fullpath # p)

C15_RejectReport ==
  \A r \in Runs :
    pc[r] = "done" =>
      \A rejected \in {C15_Rejected(r)} :
        /\ csvs[r] # {} <=> rejected # <<>>
        /\ \A f \in csvs[r] :
             /\ f.lines.header = CsvHeader
             /\ Len(f.lines.rows) = Len(rejected)
             /\ \A i \in 1..Len(rejected) : f.lines.rows[i].archivo = rejected[i].name

\* a run that returned with a .txt and a report of a rejected file
C15_Witness ==
  \E r \in Runs :
    /\ pc[r] = "done"
    /\ txts[r] # {}
    /\ \E f \in csvs[r] : Len(f.lines.rows) >= 1

(***************************************************************************)
(* C16.  In every supplier-mode detail line the 35-character name field is *)
(* all spaces when the document-type field is "6" and the code field of    *)
(* the line is not "040"; when the document-type field is "1" or the code  *)
(* field of the line is "040" it holds the customer's normalized name cut  *)
(* and padded to 35.  In every acquirer-mode detail line it is all spaces. *)
(***************************************************************************)
DetailTipoDoc(line) == line[1]

DetailNombre(line) == SubSeq(line, 13, 47)

DetailCodigo(line) == SubSeq(line, 57, 59)

C16_NameField ==
  \A r \in Runs : \A f \in txts[r] : \A i \in 1..Len(aceptados[r]) :
    \A line \in {aceptados[r][i].detalle} : \A rec \in {aceptados[r][i].rec} :
      IF cfg[r].tipo_depositante = "proveedor"
        THEN IF DetailTipoDoc(line) = "6" /\ DetailCodigo(line) # <<"0", "4", "0">>
               THEN DetailNombre(line) = Rep(" ", 35)
             ELSE DetailNombre(line) = BlankPad(rec.cliente_razon, 35)
      ELSE DetailNombre(line) = Rep(" ", 35)

(***************************************************************************)
(* C17, as stated.  In acquirer mode every record whose supplier tax id    *)
(* does not have exactly 11 digits is rejected with the 'supplier not RUC' *)
(* reason and is not accepted.                                             *)
(***************************************************************************)
DetailNumDoc(line) == SubSeq(line, 2, 12)

C17_Accepted(r, rec) ==
  \E i \in 1..Len(aceptados[r]) : aceptados[r][i].rec.fullpath = rec.fullpath

C17_NonRucDocs ==
  {id \in DocIds :
     /\ ~ParseRaises(DocPool[id])
     /\ Len(parse_xml_fields(DocPool[id], [dir |-> InputDir, name |-> <<>>]).proveedor_ruc) # 11}

ConcDirectories ==
  { d \in Directories :
      /\ DOMAIN d.xmls \subseteq {FileName("a", EXT_xml)}
      /\ DOMAIN d.zips \subseteq {"x.zip"}
      /\ \A n \in DOMAIN d.xmls : d.xmls[n] \in {1, 3, 8}
      /\ \A z \in DOMAIN d.zips : d.zips[z] \in {1, 2, 3, 6} }

\* the configurations the web layer passes: it never enforces the whitelist
WebConfigs == {Config(m, FALSE) : m \in Modes}

\* both requests have arrived, each with its own upload and its own mode
InitConc ==
  /\ input \in [Runs -> ConcDirectories]
  /\ cfg \in [Runs -> WebConfigs]
  /\ pc = [r \in Runs |-> "start"]
  /\ zip_order = [r \in Runs |-> <<>>]
  /\ tmpdir = [r \in Runs |-> NoTmp]
  /\ fs = [t \in TmpNames |-> [exists |-> FALSE, files |-> <<>>]]
  /\ final_xmls = [r \in Runs |-> <<>>]
  /\ pos = [r \in Runs |-> 0]
  /\ docs_read = [r \in Runs |-> <<>>]
  /\ aceptados = [r \in Runs |-> <<>>]
  /\ omitidos = [r \in Runs |-> <<>>]
  /\ proveedor = [r \in Runs |-> NoParty]
  /\ cliente = [r \in Runs |-> NoParty]
  /\ txts = [r \in Runs |-> {}]
  /\ csvs = [r \in Runs |-> {}]
  /\ err = [r \in Runs |-> NoError]
  /\ money_in = <<>>
  /\ money_out = NoMoney
  /\ periodo_in = <<>>
  /\ periodo_out = NoPeriodo

SpecConc == InitConc /\ [][Next]_vars

(***************************************************************************)
(* run_pipeline as a function of its arguments: what one call leaves in    *)
(* its output directory and what it raises when nothing else is running.   *)
(***************************************************************************)
Outcome(t, c, e) == [txts |-> t, csvs |-> c, err |-> e]

\* the per-file loop, lines 332-377, over the paths left
RECURSIVE LoopAlone(_, _, _, _, _)
LoopAlone(dir, c, staged, paths, st) ==
  IF paths = <<>> \/ st.raised THEN st
  ELSE LET path == Head(paths)
           id   == IF path.dir = InputDir THEN dir.xmls[path.name] ELSE staged[path.name]
       IN  IF ParseRaises(DocPool[id])
             THEN LoopAlone(dir, c, staged, Tail(paths),
                    [st EXCEPT !.omit = Append(@, OmitRow(FALSE, <<>>, path.name,
                                                          Motivo(M_XML, ParseError(id))))])
           ELSE LET rec == parse_xml_fields(DocPool[id], path)
                    res == Validar(rec, c)
                    fp  == [st EXCEPT !.prov = FirstParty(@, rec.proveedor_ruc, rec.proveedor_razon),
                                      !.cli = FirstParty(@, rec.cliente_doc_num, rec.cliente_razon)]
                IN  LoopAlone(dir, c, staged, Tail(paths),
                      CASE res.t = "raise"  -> [fp EXCEPT !.raised = TRUE]
                        [] res.t = "accept" -> [fp EXCEPT !.acc = Append(@, [rec |-> rec, detalle |-> res.detalle])]
                        [] res.t = "omit"   -> [fp EXCEPT !.omit = Append(@, OmitRow(TRUE, rec, rec.source, res.motivo))]
                        [] OTHER            -> fp)

\* lines 383-461 once the coherence check has passed
EmitAlone(c, st) ==
  IF st.acc = <<>>
    THEN IF st.omit # <<>>
           THEN Outcome({}, WriteOut({}, OmitidosName, CsvContent(st.omit)),
                        Error("RuntimeError", E_TODOS_OMITIDOS, 0,
                              resumen_omitidos(st.omit, MaxMotivos)))
         ELSE Outcome({}, {}, Error("RuntimeError", E_SIN_XML, 0, <<>>))
  ELSE LET modo     == c.tipo_depositante
           ruc11    == Ruc11(DepositanteRuc(modo, st.prov.ruc, st.cli.ruc))
           razon35  == Razon35(DepositanteRazon(modo, st.prov.razon, st.cli.razon))
           lote6    == Lote6(c.lote)
           cabecera == Cabecera(Indicador(modo), ruc11, razon35, lote6, Total15(st.acc))
       IN  IF ~CabeceraWidthOk(cabecera)
             THEN Outcome(TxtOnHeaderError({}, OutName(ruc11, lote6), TxtLines(cabecera, st.acc)),
                          {}, Error("RuntimeError", E_CABECERA, Len(cabecera), <<>>))
           ELSE Outcome(WriteOut({}, OutName(ruc11, lote6), TxtLines(cabecera, st.acc)),
                        IF st.omit # <<>> THEN WriteOut({}, OmitidosName, CsvContent(st.omit))
                        ELSE {},
                        NoError)

\* run_pipeline on the directory dir with the arguments c, staging in t,
\* glob listing the zips in the given order
RunAlone(dir, c, t, order) ==
  LET staged == ExtractAll(<<>>, dir.zips, order)
      found  == SortPaths(FinalXmls(dir, t, staged))
  IN  IF found = <<>> THEN Outcome({}, {}, Error("RuntimeError", E_NOXML, 0, <<>>))
      ELSE LET st == LoopAlone(dir, c, staged, found,
                               [acc |-> <<>>, omit |-> <<>>, prov |-> NoParty,
                                cli |-> NoParty, raised |-> FALSE])
           IN  IF st.raised
                 THEN Outcome({}, {}, Error("InvalidOperation", E_DECIMAL, 0, <<>>))
               ELSE LET e == preflight_validate(AcceptedRecs(st.acc), c.tipo_depositante)
                    IN  IF e.type # "none" THEN Outcome({}, {}, e)
                        ELSE EmitAlone(c, st)

\* the run holds a staging directory
Staging(r) == pc[r] \in {"loop", "emit", "omit"}

\* C18: runs executed at the same time on different input and output
\* directories do not interact: two runs that hold a staging directory hold
\* different ones, and a run that has ended has left in its output directory
\* and has raised exactly what it leaves and raises when it runs alone.
C18_RunsDoNotInteract ==
  /\ \A r1, r2 \in Runs :
        r1 # r2 /\ Staging(r1) /\ Staging(r2) => tmpdir[r1] # tmpdir[r2]
  /\ \A r \in Runs :
        Terminal(r) =>
          Outcome(txts[r], csvs[r], err[r]) = RunAlone(input[r], cfg[r], tmpdir[r], zip_order[r])

\* C18 witness: the first request has ended with a deposit file made from
\* the invoices of its own zip while the second, on another upload, still
\* holds its staging directory with its own extracted invoice
C18_Witness ==
  /\ pc[1] = "done" /\ txts[1] # {} /\ DOMAIN input[1].zips # {}
  /\ Staging(2) /\ pos[2] > 0 /\ fs[tmpdir[2]].files # <<>>
  /\ input[1] # input[2]
  /\ cfg[1] # cfg[2]
  /\ tmpdir[1] # tmpdir[2]


\* the characters a..b of a line, as far as the line reaches
Field(line, a, b) ==
  IF a > Len(line) THEN <<>> ELSE SubSeq(line, a, Min2(b, Len(line)))

\* the batch field of the header line
HeaderLote(line) == Field(line, 48, 53)

\* the file is named after the tax-id field and the batch field of its header
C19_Name(f) ==
  f.name = <<"D">> \o Field(f.lines[1], 2, 12) \o HeaderLote(f.lines[1]) \o <<".", "t", "x", "t">>

\* the header starts with the indicator of the mode and carries the lote
C19_Header(r, f) ==
  /\ Field(f.lines[1], 1, 1) = <<IF cfg[r].tipo_depositante = "proveedor" THEN "P" ELSE "*">>
  /\ Len(cfg[r].lote) = 6 => HeaderLote(f.lines[1]) = cfg[r].lote

\* after the header, one line per accepted record, in order
C19_Details(r, f) ==
  /\ Len(f.lines) = Len(aceptados[r]) + 1
  /\ \A i \in 1..Len(aceptados[r]) : f.lines[i + 1] = aceptados[r][i].detalle

\* C19: every .txt written is named "D" + the 11-character tax-id field of
\* its header + the 6-character batch field of its header + ".txt"; its
\* header starts with "P" in supplier mode and with "*" in acquirer mode; the
\* batch field equals a 6-digit lote unchanged; and after the header the file
\* holds exactly one detail line per accepted record.
C19_TxtNameHeaderAndDetails ==
  \A r \in Runs : \A f \in txts[r] :
     Terminal(r) => Len(f.lines) >= 1 /\ C19_Name(f) /\ C19_Header(r, f) /\ C19_Details(r, f)


(***************************************************************************)
(* money15 on its own: one call with an amount given as the text of a      *)
(* Decimal.                                                                *)
(***************************************************************************)
\* integer parts of the amounts: up to the largest that fits and one beyond
MoneyInts ==
  { <<"0">>, <<"7">>, <<"7", "0", "0">>, <<"0", "7", "0", "0">>,
    Rep("9", MoneyWidth - 2), <<"1">> \o Rep("0", MoneyWidth - 2) }

\* fractions: none, every one of one or two digits, and two of three digits
MoneyFracs ==
  { <<>> } \cup { <<DigitChars[i]>> : i \in 1..10 }
  \cup { <<DigitChars[i], DigitChars[j]>> : i, j \in 1..10 }
  \cup { <<"1", "2", "5">>, <<"0", "0", "4">> }

\* the amount texts: with and without a decimal point, and a NaN
MoneyTexts ==
  MoneyInts \cup { ip \o <<".">> \o fp : ip \in MoneyInts, fp \in MoneyFracs \ {<<>>} }
  \cup { TXT_NAN }

InitMoney ==
  /\ input \in [Runs -> {d \in Directories : DOMAIN d.xmls = {} /\ DOMAIN d.zips = {}}]
  /\ cfg = [r \in Runs |-> Config("proveedor", FALSE)]
  /\ pc = [r \in Runs |-> "idle"]
  /\ zip_order = [r \in Runs |-> <<>>]
  /\ tmpdir = [r \in Runs |-> NoTmp]
  /\ fs = [t \in TmpNames |-> [exists |-> FALSE, files |-> <<>>]]
  /\ final_xmls = [r \in Runs |-> <<>>]
  /\ pos = [r \in Runs |-> 0]
  /\ docs_read = [r \in Runs |-> <<>>]
  /\ aceptados = [r \in Runs |-> <<>>]
  /\ omitidos = [r \in Runs |-> <<>>]
  /\ proveedor = [r \in Runs |-> NoParty]
  /\ cliente = [r \in Runs |-> NoParty]
  /\ txts = [r \in Runs |-> {}]
  /\ csvs = [r \in Runs |-> {}]
  /\ err = [r \in Runs |-> NoError]
  /\ money_in \in MoneyTexts
  /\ money_out = NoMoney
  /\ periodo_in = <<>>
  /\ periodo_out = NoPeriodo

\* money15(Decimal(text))
Money15Call ==
  /\ money_out = NoMoney
  /\ \E dec \in {ParseDecimal(money_in)} :
        money_out' = IF money15Raises(dec) THEN [t |-> "raise", text |-> <<>>]
                     ELSE [t |-> "ok", text |-> money15(dec)]
  /\ UNCHANGED <<input, cfg, pc, zip_order, tmpdir, fs, final_xmls, pos, docs_read, aceptados,
                 omitidos, proveedor, cliente, txts, csvs, err, money_in,
                 periodo_in, periodo_out>>

NextMoney == Money15Call

SpecMoney == InitMoney /\ [][NextMoney]_vars

\* the digits of an amount text before and after its decimal point
C20_IntPart(text) ==
  IF IndexOf(text, ".") = 0 THEN text ELSE SubSeq(text, 1, IndexOf(text, ".") - 1)

C20_FracPart(text) ==
  IF IndexOf(text, ".") = 0 THEN <<>> ELSE SubSeq(text, IndexOf(text, ".") + 1, Len(text))

\* the amount is a non-negative number written with at most two decimals
C20_TwoDecimals(text) ==
  /\ \A i \in 1..Len(C20_IntPart(text)) : IsDigitChar(C20_IntPart(text)[i])
  /\ \A i \in 1..Len(C20_FracPart(text)) : IsDigitChar(C20_FracPart(text)[i])
  /\ Len(C20_IntPart(text)) > 0
  /\ Len(C20_FracPart(text)) <= 2

\* its count of cents
C20_Cents(text) ==
  FieldNat(C20_IntPart(text) \o C20_FracPart(text) \o Rep("0", 2 - Len(C20_FracPart(text))))

\* 0 <= c < 10^15
C20_InDomain(text) == C20_TwoDecimals(text) /\ Len(C20_Cents(text)) <= MoneyWidth

\* C20: for every amount with at most two decimals whose count of cents c
\* satisfies 0 <= c < 10^15, money15 returns the 15-character zero-padded
\* decimal representation of c, and that number divided by 100 is the amount
\* again; 700.00 encodes to "000000000070000".
C20_Money15RoundTrip ==
  money_out # NoMoney /\ C20_InDomain(money_in) =>
    /\ money_out.t = "ok"
    /\ Len(money_out.text) = 15
    /\ money_out.text = Rep("0", 15 - Len(C20_Cents(money_in))) \o DigitStr(C20_Cents(money_in))
    /\ DecFin(FALSE, FieldNat(money_out.text) \o Rep(0, FracDigits - 2)) = ParseDecimal(money_in)
    /\ money_in = TXT_700 =>
         money_out.text = <<"0", "0", "0", "0", "0", "0", "0", "0", "0", "0", "7", "0", "0", "0", "0">>

\* C20 witness: money15 has encoded 700.00
C20_Witness ==
  /\ money_in = TXT_700
  /\ money_out = [t |-> "ok", text |-> Rep("0", 10) \o <<"7", "0", "0", "0", "0">>]


\* the record passes the seven rules of the loop
C21_PassesRules(rec, c) == \A k \in 1..7 : ~C2_Fails(k, rec, c)

\* the detraction amount needs more than 15 digits of cents
C21_AmountTooWide(importe) ==
  /\ importe.kind = "fin"
  /\ Len(IntStr(importe.neg, RoundHalfUp(importe.coef))) > 15

\* the documents that parse and carry such an amount
C21_WideDocs ==
  {id \in DocIds : ~ParseRaises(DocPool[id]) /\ C21_AmountTooWide(ImporteOf(DocPool[id]))}

\* C21: a record that passes all validation rules but whose detail line
\* would not be exactly 107 characters, because its detraction amount needs
\* more than 15 digits of cents, is not accepted and is not cut to fit: it
\* gets exactly one reject row, with the 'invalid detail' reason, and the
\* loop goes on to the next file.
C21_WideDetailRejected ==
  \A r \in Runs : \A i \in 1..Len(docs_read[r]) :
    docs_read[r][i] \in C21_WideDocs =>
      \A rec \in {RecAt(r, i)} :
        C21_PassesRules(rec, cfg[r]) =>
          /\ \A j \in 1..Len(aceptados[r]) : aceptados[r][j].rec.source # rec.source
          /\ \A f \in txts[r] : \A k \in 1..Len(f.lines) : Len(f.lines[k]) <= 107
          /\ Cardinality(C2_RowsOf(r, rec.source)) = 1
          /\ \A j \in C2_RowsOf(r, rec.source) : omitidos[r][j].motivo.kind = M_DETALLE
          /\ pos[r] >= i

\* C21 witness: the first file had an amount of sixteen digits of cents and
\* was rejected for its detail; the second was accepted and the .txt written
C21_Witness ==
  /\ pc[1] = "done"
  /\ docs_read[1] = <<16, 1>>
  /\ Len(omitidos[1]) = 1 /\ omitidos[1][1].motivo.kind = M_DETALLE
  /\ Len(aceptados[1]) = 1
  /\ txts[1] # {}


\* the run has gone past the coherence check with accepted records
C22_HeaderBuilt(r) ==
  /\ LoopDone(r)
  /\ pc[r] \in {"omit", "done", "raised"}
  /\ aceptados[r] # <<>>
  /\ preflight_validate(AcceptedRecs(aceptados[r]), cfg[r].tipo_depositante) = NoError

\* the batch total needs more than 15 digits
C22_TotalTooWide(r) == Len(DigitStr(SumCents(aceptados[r]))) > 15

\* C22: when the header would not be exactly 68 characters, because the
\* batch total needs more than 15 digits, run_pipeline raises a RuntimeError
\* and writes no .txt: the failure is fatal for the whole batch, although
\* every accepted record has a detail line of the right width.
C22_WideHeaderIsFatal ==
  \A r \in Runs :
    C22_HeaderBuilt(r) /\ C22_TotalTooWide(r) =>
      /\ pc[r] = "raised"
      /\ err[r] = Error("RuntimeError", E_CABECERA, 69, <<>>)
      /\ txts[r] = {}
      /\ \A i \in 1..Len(aceptados[r]) : Len(aceptados[r][i].detalle) = 107

\* C22 witness: two accepted records, each with a detail of 107 characters,
\* whose amounts add up to sixteen digits; the run has raised
C22_Witness ==
  /\ pc[1] = "raised"
  /\ Len(aceptados[1]) = 2
  /\ C22_TotalTooWide(1)
  /\ err[1].msg = E_CABECERA


\* the place of a file name in the run's sorted list of paths
C23_Index(r, name) == CHOOSE i \in 1..Len(final_xmls[r]) : final_xmls[r][i].name = name

\* the names are at ascending places of the list
C23_Ascending(r, names) ==
  \A i, j \in 1..Len(names) : i < j => C23_Index(r, names[i]) < C23_Index(r, names[j])

\* the details of the accepted records, each followed by a line feed
RECURSIVE C23_DetailText(_)
C23_DetailText(acc) ==
  IF acc = <<>> THEN <<>> ELSE Head(acc).detalle \o <<LF>> \o C23_DetailText(Tail(acc))

\* the text of a file whose lines are given
RECURSIVE C23_FileText(_)
C23_FileText(lines) ==
  IF lines = <<>> THEN <<>> ELSE Head(lines) \o <<LF>> \o C23_FileText(Tail(lines))

\* C23: every distinct resolved XML path, loose or staged from a zip, is
\* parsed exactly once; the files are processed in ascending order of their
\* path, and the detail lines of the .txt and the rows of omitidos.csv
\* appear in that same order.
C23_EachPathOnceInOrder ==
  \A r \in Runs :
    Terminal(r) /\ final_xmls[r] # <<>> =>
      /\ \A i, j \in 1..Len(final_xmls[r]) : i < j => PathLess(final_xmls[r][i], final_xmls[r][j])
      /\ {final_xmls[r][i] : i \in 1..Len(final_xmls[r])}
           = FinalXmls(input[r], tmpdir[r], ExtractAll(<<>>, input[r].zips, zip_order[r]))
      /\ Len(docs_read[r]) = Len(final_xmls[r])
      /\ \A i \in 1..Len(docs_read[r]) : docs_read[r][i] = 
           (IF final_xmls[r][i].dir = InputDir THEN input[r].xmls[final_xmls[r][i].name]
            ELSE ExtractAll(<<>>, input[r].zips, zip_order[r])[final_xmls[r][i].name])
      /\ C23_Ascending(r, [i \in 1..Len(aceptados[r]) |-> aceptados[r][i].rec.source])
      /\ C23_Ascending(r, [i \in 1..Len(omitidos[r]) |-> omitidos[r][i].archivo])
      /\ \A f \in txts[r] :
           \E t \in {C23_FileText(f.lines)}, d \in {C23_DetailText(aceptados[r])} :
              Len(t) >= Len(d) /\ Suffix(t, Len(d)) = d
      /\ \A f \in csvs[r] : f.lines.rows = omitidos[r]


\* the members of one archive that are written to the staging directory, in
\* the order in which they are written
RECURSIVE C24_MemberWrites(_, _, _)
C24_MemberWrites(members, i, bad) ==
  IF i > Len(members) \/ (i = bad /\ MemberIsXml(members[i].name)) THEN <<>>
  ELSE (IF MemberIsXml(members[i].name) THEN <<members[i]>> ELSE <<>>)
       \o C24_MemberWrites(members, i + 1, bad)

\* all members written for the zips of a directory listed in an order
RECURSIVE C24_Writes(_, _)
C24_Writes(zips, order) ==
  IF order = <<>> THEN <<>>
  ELSE (IF ZipPool[zips[Head(order)]].opens
          THEN C24_MemberWrites(ZipPool[zips[Head(order)]].members, 1,
                                ZipPool[zips[Head(order)]].bad)
        ELSE <<>>)
       \o C24_Writes(zips, Tail(order))

\* the places of the staged file of a name in the run's list of paths
C24_Places(r, name) ==
  {i \in 1..Len(final_xmls[r]) : final_xmls[r][i].dir = tmpdir[r] /\ final_xmls[r][i].name = name}

\* the run has listed its files and, when there are any, gone through them
C24_LoopOver(r) == LoopDone(r) \/ (Terminal(r) /\ final_xmls[r] = <<>>)

\* C24: when several .xml members, of one zip or of different zips, have
\* the same base name, exactly one file of that name is processed in the
\* run, its content is that of the member extracted last, and the members it
\* replaced leave no reject row and no error.
C24_LastMemberWins ==
  \A r \in Runs :
    C24_LoopOver(r) =>
      \A w \in {C24_Writes(input[r].zips, zip_order[r])} :
        \A k \in 1..Len(w) :
          (\E m \in (k + 1)..Len(w) : w[m].name = w[k].name) =>
             \A last \in {CHOOSE m \in 1..Len(w) :
                             /\ w[m].name = w[k].name
                             /\ \A n \in (m + 1)..Len(w) : w[n].name # w[k].name} :
                /\ Cardinality(C24_Places(r, w[k].name)) = 1
                /\ \A i \in C24_Places(r, w[k].name) : docs_read[r][i] = w[last].doc
                /\ Cardinality(C2_RowsOf(r, w[k].name))
                     + Cardinality({j \in 1..Len(aceptados[r]) :
                                      aceptados[r][j].rec.source = w[k].name}) = 1


(***************************************************************************)
(* periodo_aaaamm on its own: one call with the text of an issue date.     *)
(***************************************************************************)
\* issue dates: a year, a month and a day or none, written with "-", "/" or
\* no separator, with or without blanks around; and no date at all
PeriodoDates ==
  { pad \o y \o s \o m \o (IF d = <<>> THEN <<>> ELSE s \o d) \o pad :
      pad \in {<<>>, <<" ">>},
      y \in {<<"2", "0", "2", "5">>, <<"2", "5">>, <<"1", "5">>},
      s \in {<<"-">>, <<"/">>, <<>>},
      m \in {<<"0", "1">>, <<"1">>, <<"1", "2">>, <<"a", "b">>},
      d \in {<<"1", "5">>, <<"5">>, <<"2", "0", "2", "5">>, <<>>} }
  \cup { <<>> }

InitPeriodo ==
  /\ input \in [Runs -> {d \in Directories : DOMAIN d.xmls = {} /\ DOMAIN d.zips = {}}]
  /\ cfg = [r \in Runs |-> Config("proveedor", FALSE)]
  /\ pc = [r \in Runs |-> "idle"]
  /\ zip_order = [r \in Runs |-> <<>>]
  /\ tmpdir = [r \in Runs |-> NoTmp]
  /\ fs = [t \in TmpNames |-> [exists |-> FALSE, files |-> <<>>]]
  /\ final_xmls = [r \in Runs |-> <<>>]
  /\ pos = [r \in Runs |-> 0]
  /\ docs_read = [r \in Runs |-> <<>>]
  /\ aceptados = [r \in Runs |-> <<>>]
  /\ omitidos = [r \in Runs |-> <<>>]
  /\ proveedor = [r \in Runs |-> NoParty]
  /\ cliente = [r \in Runs |-> NoParty]
  /\ txts = [r \in Runs |-> {}]
  /\ csvs = [r \in Runs |-> {}]
  /\ err = [r \in Runs |-> NoError]
  /\ money_in = <<>>
  /\ money_out = NoMoney
  /\ periodo_in \in PeriodoDates
  /\ periodo_out = NoPeriodo

\* periodo_aaaamm(issue_date)
PeriodoCall ==
  /\ periodo_out = NoPeriodo
  /\ periodo_out' = [t |-> "ok", text |-> periodo_aaaamm(periodo_in)]
  /\ UNCHANGED <<input, cfg, pc, zip_order, tmpdir, fs, final_xmls, pos, docs_read, aceptados,
                 omitidos, proveedor, cliente, txts, csvs, err, money_in, money_out, periodo_in>>

NextPeriodo == PeriodoCall

SpecPeriodo == InitPeriodo /\ [][NextPeriodo]_vars

\* the characters a..b of the text are decimal digits
C25_Digits(s, a, b) == Len(s) >= b /\ \A i \in a..b : IsDigitChar(s[i])

\* the text is a date YYYY-MM-DD or YYYY/MM/DD
C25_IsDate(s) ==
  /\ Len(s) = 10
  /\ C25_Digits(s, 1, 4) /\ C25_Digits(s, 6, 7) /\ C25_Digits(s, 9, 10)
  /\ s[5] \in {"-", "/"} /\ s[8] = s[5]

\* the text is six decimal digits
C25_IsSix(s) == Len(s) = 6 /\ C25_Digits(s, 1, 6)

\* C25: for every issue date periodo_aaaamm returns exactly 6 decimal
\* digits: the year and the month of a date YYYY-MM-DD or YYYY/MM/DD, the
\* input itself when it is 6 digits, and "000000" for every other input.
C25_PeriodoSixDigits ==
  periodo_out # NoPeriodo =>
    \A s \in {strip(periodo_in)} :
      /\ Len(periodo_out.text) = 6
      /\ C25_Digits(periodo_out.text, 1, 6)
      /\ C25_IsDate(s) => periodo_out.text = SubSeq(s, 1, 4) \o SubSeq(s, 6, 7)
      /\ C25_IsSix(s) => periodo_out.text = s
      /\ ~C25_IsDate(s) /\ ~C25_IsSix(s) => periodo_out.text = Rep("0", 6)


\* the amount is exactly zero
C26_IsZero(dec) == dec.kind = "fin" /\ NatIsZero(dec.coef)

\* the documents that parse, their payable and their detraction amounts
C26_Parsed == [id \in DocIds |-> ~ParseRaises(DocPool[id])]

C26_Pay == [id \in DocIds |-> PayableOf(DocPool[id])]

C26_Imp == [id \in DocIds |-> ImporteOf(DocPool[id])]

\* the documents without a detraction term or with an empty or blank amount
C26_Blank == [id \in DocIds |-> ~DocPool[id].has_term \/ strip(DocPool[id].amount) = <<>>]

\* the documents whose detraction amount is exactly zero, strictly positive
C26_Zero == [id \in DocIds |-> C26_IsZero(C26_Imp[id])]

C26_Positive == [id \in DocIds |-> C2_Pos(C26_Imp[id])]

\* the reasons of the reject rows of a file
C26_Reasons(r, name) == {omitidos[r][j].motivo.kind : j \in C2_RowsOf(r, name)}

\* the file was accepted
C26_Accepted(r, name) == \E j \in 1..Len(aceptados[r]) : aceptados[r][j].rec.source = name

C27_PositiveField(field) == \E i \in 1..Len(field) : field[i] # "0"

\* C27: every detail line written to a .txt has a strictly positive amount
\* field, at least 1 cent; no accepted record is encoded with the amount
\* "000000000000000", and so the header total of a written .txt is strictly
\* positive.
C27_PositiveAmounts ==
  \A r \in Runs : \A f \in txts[r] :
    /\ \A i \in 1..Len(aceptados[r]) :
         C27_PositiveField(DetailImporte(aceptados[r][i].detalle))
    /\ WellFormed(f) =>
         /\ \A k \in 2..Len(f.lines) : C27_PositiveField(DetailImporte(f.lines[k]))
         /\ C27_PositiveField(HeaderTotal(f.lines[1]))


\* the number of outcomes, accepted or rejected, recorded for a file name
C28_Outcomes(r, name) ==
  Cardinality({j \in 1..Len(aceptados[r]) : aceptados[r][j].rec.source = name})
  + Cardinality(C2_RowsOf(r, name))

\* C28: every processed file ends in exactly one outcome: when the per-file
\* loop has finished, the accepted records and the reject rows together are
\* as many as the paths processed, and no file is both accepted and
\* rejected; the error of the branch without accepted records and without
\* reject rows is never raised.
C28_OneOutcomePerFile ==
  \A r \in Runs :
    /\ LoopDone(r) =>
         /\ Len(aceptados[r]) + Len(omitidos[r]) = Len(final_xmls[r])
         /\ \A i \in 1..Len(final_xmls[r]) : C28_Outcomes(r, final_xmls[r][i].name) = 1
    /\ err[r].msg # E_SIN_XML

\* C28 witness: the loop has finished over two files, both were rejected,
\* and the run has raised the error of the branch with reject rows
C28_Witness ==
  /\ pc[1] = "raised"
  /\ LoopDone(1)
  /\ Len(final_xmls[1]) = 2
  /\ aceptados[1] = <<>> /\ Len(omitidos[1]) = 2
  /\ err[1].msg = E_TODOS_OMITIDOS


\* the coherence check of the run has failed
C29_CoherenceFailed(r) == pc[r] = "raised" /\ err[r].msg \in CoherenceErrors

\* C29: when the coherence check fails the run writes neither a .txt nor
\* omitidos.csv, even when reject rows had been collected; the reject report
\* is written only on the path without accepted records and after a .txt
\* has been written.
C29_CoherenceFailureWritesNothing ==
  \A r \in Runs :
    /\ C29_CoherenceFailed(r) => txts[r] = {} /\ csvs[r] = {}
    /\ csvs[r] # {} =>
         \/ pc[r] = "raised" /\ err[r].msg = E_TODOS_OMITIDOS /\ aceptados[r] = <<>>
         \/ pc[r] = "done" /\ txts[r] # {}

\* C29 witness: the coherence check has failed in a run that had collected
\* reject rows
C29_Witness ==
  /\ C29_CoherenceFailed(1)
  /\ omitidos[1] # <<>>
  /\ Len(aceptados[1]) >= 2


(***************************************************************************)
(* A request whose form carries any value of tipo_depositante: the web     *)
(* layer passes it to run_pipeline as it comes.                            *)
(***************************************************************************)
\* the values of the form field: the two modes and one that is neither
FormModes == Modes \cup {"internet"}

\* the uploads of such a request: loose invoices only
FormDirectories ==
  { d \in Directories :
      /\ DOMAIN d.zips = {}
      /\ DOMAIN d.xmls \subseteq {FileName("a", EXT_xml), FileName("c", EXT_XML)}
      /\ \A n \in DOMAIN d.xmls : d.xmls[n] \in {1, 2, 3, 15} }

InitForm ==
  /\ \E d \in FormDirectories : input = [r \in Runs |-> d]
  /\ \E m \in FormModes : cfg = [r \in Runs |-> Config(m, FALSE)]
  /\ pc = [r \in Runs |-> IF r = 1 THEN "start" ELSE "idle"]
  /\ zip_order = [r \in Runs |-> <<>>]
  /\ tmpdir = [r \in Runs |-> NoTmp]
  /\ fs = [t \in TmpNames |-> [exists |-> FALSE, files |-> <<>>]]
  /\ final_xmls = [r \in Runs |-> <<>>]
  /\ pos = [r \in Runs |-> 0]
  /\ docs_read = [r \in Runs |-> <<>>]
  /\ aceptados = [r \in Runs |-> <<>>]
  /\ omitidos = [r \in Runs |-> <<>>]
  /\ proveedor = [r \in Runs |-> NoParty]
  /\ cliente = [r \in Runs |-> NoParty]
  /\ txts = [r \in Runs |-> {}]
  /\ csvs = [r \in Runs |-> {}]
  /\ err = [r \in Runs |-> NoError]
  /\ money_in = <<>>
  /\ money_out = NoMoney
  /\ periodo_in = <<>>
  /\ periodo_out = NoPeriodo

SpecForm == InitForm /\ [][Next]_vars

\* what a finished run shows of the mode each step selected
C30_SupplierLayout(r) ==
  \A i \in 1..Len(aceptados[r]) :
    aceptados[r][i].detalle = DetalleProveedorText(aceptados[r][i].rec, cfg[r].tipo_operacion_txt)

C30_AcquirerLayout(r) ==
  \A i \in 1..Len(aceptados[r]) :
    aceptados[r][i].detalle = DetalleAdquirienteText(aceptados[r][i].rec, cfg[r].tipo_operacion_txt)

C30_SupplierCoherence(r) ==
  /\ Cardinality(FieldSet(AcceptedRecs(aceptados[r]), "proveedor_ruc")) = 1
  /\ Cardinality(FieldSet(AcceptedRecs(aceptados[r]), "cuenta_bn")) = 1

C30_AcquirerCoherence(r) ==
  Cardinality(FieldSet(AcceptedRecs(aceptados[r]), "cliente_doc_num")) = 1

C30_AcquirerRule(r) ==
  \A i \in 1..Len(aceptados[r]) : Len(aceptados[r][i].rec.proveedor_ruc) = 11

C30_SupplierHeader(r, f) ==
  /\ Field(f.lines[1], 1, 1) = <<"P">>
  /\ Field(f.lines[1], 2, 12) = Ruc11(proveedor[r].ruc)

C30_AcquirerHeader(r, f) ==
  /\ Field(f.lines[1], 1, 1) = <<"*">>
  /\ Field(f.lines[1], 2, 12) = Ruc11(cliente[r].ruc)

\* C30: for every value of tipo_depositante the mode-dependent steps of a
\* run select the same mode: a written .txt is either all supplier mode
\* (supplier detail layout, one supplier and one account, header "P" with
\* the supplier) or all acquirer mode (only RUC suppliers, acquirer detail
\* layout, one acquirer, header "*" with the acquirer).
C30_OneModeThroughout ==
  \A r \in Runs : \A f \in txts[r] :
    Terminal(r) /\ Len(f.lines) >= 1 =>
      \/ C30_SupplierLayout(r) /\ C30_SupplierCoherence(r) /\ C30_SupplierHeader(r, f)
      \/ /\ C30_AcquirerRule(r) /\ C30_AcquirerLayout(r)
         /\ C30_AcquirerCoherence(r) /\ C30_AcquirerHeader(r, f)

====
